---- MODULE Spec2Model ----
(***************************************************************************)
(* Model of the live-wire call-intelligence backend: the MaestroAgent      *)
(* perception / decision / action loop (agents/orchestrator.py), the       *)
(* AudioPipeline life cycle (audio/pipeline.py, audio/capture.py) and the  *)
(* websocket endpoint that owns the process-wide pipeline (main.py), the   *)
(* connection registry (api/websocket_handler.py) and the transcription    *)
(* model singleton (models/parakeet.py).                                   *)
(*                                                                         *)
(* Coroutines are modelled at the granularity of asyncio: one action is    *)
(* the code a coroutine runs between two suspension points (await of a     *)
(* network send, of an executor future, of a sleep).                       *)
(*                                                                         *)
(* Floats are fixed-point integers in units of 1/RiskScale.  Strings are   *)
(* sequences of one-character strings, so that lower() and the substring   *)
(* test "w in transcript" are computed, not assumed.                       *)
(***************************************************************************)
EXTENDS Integers, Sequences, FiniteSets, TLC

(* ------------------------------ bounds --------------------------------- *)
\* perceive() calls made in one behaviour of Spec
MaxPerceive == 2
\* control messages (call_start, call_end) received in one behaviour
MaxControl == 2
\* the event-loop clock advances MaxTicks times, by TickStep seconds each
TickStep == 8
MaxTicks == 1
\* perceive() calls made in one behaviour of SpecRing, of which the first
\* RingVaried draw any Perception of RingPerceptions
MaxRingPerceive == 52
RingVaried == 2
\* websocket connections made in one behaviour of SpecPipeline
MaxConnections == 2
\* perceive() calls in one behaviour of SpecCall
MaxCallPerceive == 5
\* stream callbacks made to one AudioCapture in one behaviour of SpecChunker
MaxFrames == 60
\* perceive() calls of a behaviour of SpecReflex
MaxReflexPerceive == 5
\* perceive() calls of a behaviour of SpecSummary
MaxSummaryPerceive == 3
\* windows one pipeline emits in one behaviour of SpecContext, of which the
\* first ContextVaried draw any result of the inferences
MaxContextWindows == 17
ContextVaried == 2
\* _process_chunk calls made in one behaviour of SpecFrames
MaxLongFrames == 4
\* get_model() calls made in one behaviour of SpecParakeet
MaxGetModel == 5

(* ------------------------- program constants --------------------------- *)
\* one unit of the fixed-point representation of a float is 1/RiskScale
RiskScale == 1000000
\* self._intervention_cooldown = 8.0
intervention_cooldown == 8
\* if len(self.call_transcript) > 50
TranscriptCap == 50
\* len(self.call_transcript) % 10 == 0
CheckInPeriod == 10
\* if len(self._transcript_context) > 15
ContextCap == 15
\* capture.py TARGET_RATE, CHUNK_SAMPLES = int(TARGET_RATE * CHUNK_DURATION)
\* and OVERLAP_SAMPLES = int(TARGET_RATE * 0.3)
TARGET_RATE == 16000
CHUNK_SAMPLES == TARGET_RATE * 2
OVERLAP_SAMPLES == (TARGET_RATE * 3) \div 10

Fx(num, den) == (num * RiskScale) \div den

(* ------------------------------ strings -------------------------------- *)
UpperCase == <<"A", "B", "C", "D", "E", "F", "G", "H", "I", "J", "K", "L", "M",
               "N", "O", "P", "Q", "R", "S", "T", "U", "V", "W", "X", "Y", "Z">>
LowerCase == <<"a", "b", "c", "d", "e", "f", "g", "h", "i", "j", "k", "l", "m",
               "n", "o", "p", "q", "r", "s", "t", "u", "v", "w", "x", "y", "z">>

\* str.lower() on one character
LowerChar(c) ==
    IF \E i \in 1..Len(UpperCase) : UpperCase[i] = c
    THEN LowerCase[CHOOSE i \in 1..Len(UpperCase) : UpperCase[i] = c]
    ELSE c

\* str.lower()
Lower(s) == [i \in 1..Len(s) |-> LowerChar(s[i])]

\* the Python test  w in s  on strings: w is a contiguous substring of s
Contains(s, w) ==
    \E i \in 1..(Len(s) - Len(w) + 1) : SubSeq(s, i, i + Len(w) - 1) = w

\* any(w in t for w in words)
AnyIn(words, t) == \E k \in 1..Len(words) : Contains(t, words[k])

churn_words ==
    << <<"c", "a", "n", "c", "e", "l">>,
       <<"c", "a", "n", "c", "e", "l", "l", "i", "n", "g">>,
       <<"l", "e", "a", "v", "i", "n", "g">>,
       <<"s", "w", "i", "t", "c", "h">>,
       <<"c", "o", "m", "p", "e", "t", "i", "t", "o", "r">>,
       <<"d", "o", "n", "e", " ", "w", "i", "t", "h">>,
       <<"t", "e", "r", "r", "i", "b", "l", "e">>,
       <<"w", "o", "r", "s", "t">>,
       <<"n", "e", "v", "e", "r", " ", "a", "g", "a", "i", "n">> >>

price_words ==
    << <<"e", "x", "p", "e", "n", "s", "i", "v", "e">>,
       <<"t", "o", "o", " ", "m", "u", "c", "h">>,
       <<"c", "h", "e", "a", "p", "e", "r">>,
       <<"d", "i", "s", "c", "o", "u", "n", "t">>,
       <<"p", "r", "i", "c", "e">>,
       <<"c", "o", "s", "t">> >>

trigger_words ==
    << <<"n", "o", "t", " ", "h", "a", "p", "p", "y">>,
       <<"d", "i", "s", "a", "p", "p", "o", "i", "n", "t", "e", "d">>,
       <<"f", "r", "u", "s", "t", "r", "a", "t", "e", "d">>,
       <<"w", "a", "i", "t">>,
       <<"w", "a", "i", "t", "e", "d">>,
       <<"r", "e", "f", "u", "n", "d">>,
       <<"b", "r", "o", "k", "e", "n">>,
       <<"d", "o", "e", "s", "n", "'", "t", " ", "w", "o", "r", "k">>,
       <<"p", "r", "o", "b", "l", "e", "m">>,
       <<"i", "s", "s", "u", "e">>,
       <<"e", "x", "p", "l", "a", "i", "n">>,
       <<"u", "n", "d", "e", "r", "s", "t", "a", "n", "d">>,
       <<"w", "h", "y">>,
       <<"h", "o", "w", " ", "l", "o", "n", "g">> >>

(* ---------------------------- input values ----------------------------- *)
T_empty == <<>>
T_hi == <<"h", "i">>
T_cancel == <<"I", " ", "w", "a", "n", "t", " ", "t", "o", " ", "C", "a", "n", "c", "e", "l">>
T_price == <<"t", "o", "o", " ", "m", "u", "c", "h">>
T_why == <<"W", "h", "y">>
T_blank == <<" ">>
T_both == <<"c", "a", "n", "c", "e", "l", ",", " ", "t", "o", "o", " ", "m", "u", "c", "h">>

\* EmotionDetector._sentiment_fallback, quiet audio
E_neutral == [label |-> "neutral", score |-> Fx(8, 10), risk_level |-> Fx(1, 10)]
\* EmotionDetector.predict, an angry speaker
E_angry == [label |-> "angry", score |-> Fx(9, 10), risk_level |-> Fx(9, 10)]
\* EmotionDetector._compute_risk at its cap min(risk, 1.0)
E_max == [label |-> "angry", score |-> Fx(1, 1), risk_level |-> Fx(1, 1)]
\* a sad top label over negative scores that sum to the cap
E_sad == [label |-> "sad", score |-> Fx(5, 10), risk_level |-> Fx(1, 1)]
\* an angry top label below 0.85 with a risk level below 0.85
E_tense == [label |-> "angry", score |-> Fx(5, 10), risk_level |-> Fx(8, 10)]
\* an angry top label above 0.85 in an emotion dict with a low risk level
E_hot == [label |-> "angry", score |-> Fx(9, 10), risk_level |-> Fx(5, 10)]
\* the default AudioPipeline.on_audio_chunk substitutes: it has no risk_level
E_default == [label |-> "neutral", score |-> Fx(5, 10)]

Perception(t, e) == [transcript |-> t, emotion |-> e]

\* the Perceptions perceive() is called with in Spec
Perceptions ==
    { Perception(T_hi, E_default), Perception(T_cancel, E_angry),
      Perception(T_why, E_neutral) }

\* the Perceptions perceive() is called with in SpecRing
RingPerceptions ==
    { Perception(T_cancel, E_max), Perception(T_price, E_default),
      Perception(T_empty, E_angry) }

\* Python None
NoneVal == [none |-> TRUE]

\* dict.get(key, default)
Get(d, key, default) == IF key \in DOMAIN d THEN d[key] ELSE default

\* d[key] = value
SetKey(d, key, value) ==
    [k \in DOMAIN d \cup {key} |-> IF k = key THEN value ELSE d[k]]

\* what the reasoning service's answer comes to after _parse_gemini_response:
\* the call raised, the text did not parse, or a parsed object
GeminiRaised == [raised |-> TRUE]
A_prompt == [action_type |-> "show_prompt", priority |-> "medium"]
A_kb == [action_type |-> "show_kb_result", priority |-> "high", kb_query |-> "refund"]
\* json.loads gave a value that is not an object (a list, a number)
NonObject == [non_object |-> TRUE]
A_none == [action_type |-> "none", priority |-> "low"]
A_escalate == [action_type |-> "escalate", priority |-> "critical"]
A_crm == [action_type |-> "update_crm", priority |-> "low"]
A_linkedin == [action_type |-> "search_linkedin", priority |-> "low"]
\* ActionType.SCHEDULE_FOLLOWUP = "schedule_call"
A_schedule == [action_type |-> "schedule_call", priority |-> "medium"]
A_followup == [action_type |-> "schedule_followup", priority |-> "medium"]
A_draft == [action_type |-> "draft_email", priority |-> "medium"]
\* the answers drawn in SpecDispatch, and what query_knowledge_base returns:
\* hits, or the error result
DispatchOutcomes ==
    {GeminiRaised, NoneVal, NonObject, A_none, A_kb, A_escalate, A_crm,
     A_linkedin, A_schedule, A_followup, A_draft}
DispatchKbResults == { [found |-> FALSE, error |-> "kb"] }
\* the answers drawn in Spec
SpecOutcomes == {NoneVal, A_prompt, A_kb}
SpecKbResults == { [found |-> TRUE] }
SpecSummaries == { [outcome |-> "resolved"] }

\* the event-loop clock (time.monotonic) when the agent is constructed, and
\* the last value the model lets it reach
StartTime == intervention_cooldown
MaxTime == StartTime + TickStep * MaxTicks

(* ------------------------------- state --------------------------------- *)
VARIABLES
    \* MaestroAgent fields
    call_transcript, emotion_timeline, actions_taken, risk_score,
    last_intervention_time,
    \* asyncio.get_event_loop().time(), in seconds
    now,
    \* perceive() coroutines suspended in a send: slot -> record
    perceives,
    \* _strategic_decision tasks, in the order create_task made them
    tasks,
    \* the websocket message loop of the session: its position
    ctl,
    \* messages handed to the UI transport, and side-effect calls begun
    ui_sent, side_effects,
    \* history: the life-cycle phase the control messages imply, the risk
    \* levels accepted since the last start_call, and counters
    phase, accepted_risks, n_perceive, n_accepted, n_control, next_id,
    \* main.py: global_pipeline (0 is None), the holder of global_pipeline_lock
    \* (0 is free), and the websocket_endpoint coroutines
    global_pipeline, global_pipeline_lock, endpoints,
    \* every AudioPipeline constructed, with its AudioCapture
    pipelines,
    \* the on_audio_chunk coroutines, one per window the chunker emitted
    windows,
    \* vad._vad_instance is not None; ModelManager._initialized
    vad_instance, initialized,
    \* history: the windows whose Perception perceive() accepted, in order
    applied,
    \* ws_manager.active_connections for the session: "open" is a registered
    \* websocket, "broken" a registered websocket whose peer is gone, so that
    \* its next send_json raises, "removed" is no entry
    connection,
    \* models/parakeet.py: _model (0 is None, k the model the k-th run of
    \* _load_model returned), the holder of _model_lock (0 is free), the runs
    \* of _load_model, and the get_model coroutines
    parakeet

agent_vars == <<call_transcript, emotion_timeline, actions_taken, risk_score,
                last_intervention_time>>
vars == <<call_transcript, emotion_timeline, actions_taken, risk_score,
          last_intervention_time, now, perceives, tasks, ctl, ui_sent,
          side_effects, phase, accepted_risks, n_perceive, n_accepted,
          n_control, next_id, global_pipeline, global_pipeline_lock, endpoints,
          pipelines, windows, vad_instance, initialized, applied, connection,
          parakeet>>
pipe_vars == <<global_pipeline, global_pipeline_lock, endpoints, pipelines,
               windows, vad_instance, initialized, applied, parakeet>>

\* every perceive() call of a behaviour may be suspended at the same time
Slots == 1..MaxPerceive
Idle == [pc |-> "idle"]

\* MaestroAgent.__init__
Init ==
    /\ call_transcript = <<>>
    /\ emotion_timeline = <<>>
    /\ actions_taken = <<>>
    /\ risk_score = 0
    /\ last_intervention_time = 0
    /\ now = StartTime
    /\ perceives = [s \in Slots |-> Idle]
    /\ tasks = <<>>
    /\ ctl = "recv"
    /\ ui_sent = <<>>
    /\ side_effects = <<>>
    /\ phase = "IDLE"
    /\ accepted_risks = <<>>
    /\ n_perceive = 0
    /\ n_accepted = 0
    /\ n_control = 0
    /\ next_id = 1
    /\ global_pipeline = 0
    /\ global_pipeline_lock = 0
    /\ endpoints = <<>>
    /\ pipelines = <<>>
    /\ windows = <<>>
    /\ vad_instance = FALSE
    /\ initialized = FALSE
    /\ applied = <<>>
    /\ connection = "open"
    /\ parakeet = [model |-> 0, lock |-> 0, loads |-> <<>>, callers |-> <<>>]

(* -------------------------- WebSocketManager --------------------------- *)
\* a send that leaves the failed websocket registered
Send_KeepEntry(data) ==
    /\ ui_sent' = IF connection = "open" THEN Append(ui_sent, data) ELSE ui_sent
    /\ connection' = connection

\* WebSocketManager.send: nothing without an entry for the session; a
\* send_json that raises is caught and the entry deleted (disconnect)
Send(data) ==
    /\ ui_sent' = IF connection = "open" THEN Append(ui_sent, data) ELSE ui_sent
    /\ connection' = IF connection = "broken" THEN "removed" ELSE connection

\* the peer of the session's websocket goes away
PeerCloses ==
    /\ connection = "open"
    /\ connection' = "broken"
    /\ UNCHANGED <<call_transcript, emotion_timeline, actions_taken, risk_score,
                   last_intervention_time, now, perceives, tasks, ctl, ui_sent,
                   side_effects, phase, accepted_risks, n_perceive, n_accepted,
                   n_control, next_id>>
    /\ UNCHANGED pipe_vars

(* --------------------------- pure functions ---------------------------- *)
\* the eviction taking the newest entry, pop(), instead of the oldest
AppendCapped_PopLast(buf, e) ==
    LET grown == Append(buf, e)
    IN  IF Len(grown) > TranscriptCap THEN SubSeq(grown, 1, Len(grown) - 1) ELSE grown

\* self.call_transcript.append(e); if len > 50: pop(0)
AppendCapped(buf, e) ==
    LET grown == Append(buf, e)
    IN  IF Len(grown) > TranscriptCap THEN Tail(grown) ELSE grown

\* the update with weights that do not sum to 1: 0.7 and 0.5
UpdateRisk_Heavy(old, new_risk) == (old * 7) \div 10 + (new_risk * 5) \div 10

\* the update with the two weights exchanged
UpdateRisk_Swapped(old, new_risk) == (old * 3) \div 10 + (new_risk * 7) \div 10

\* (self.risk_score * 0.7) + (new_risk * 0.3); each product rounds to a unit
UpdateRisk(old, new_risk) == (old * 7) \div 10 + (new_risk * 3) \div 10

\* reflex rules whose churn Action carries an action_type with an awaited
\* integration call
InstantRules_Typed(emotion, transcript, rs) ==
    IF AnyIn(churn_words, Lower(transcript))
    THEN [type |-> "show_risk_alert", action_type |-> "search_linkedin"]
    ELSE NoneVal

\* reflex rules that test the price words before the churn words
InstantRules_PriceFirst(emotion, transcript, rs) ==
    LET label == Get(emotion, "label", "neutral")
        risk == Get(emotion, "risk_level", 0)
        transcript_lower == Lower(transcript)
    IN  IF /\ \/ risk > Fx(85, 100)
              \/ label = "angry" /\ Get(emotion, "score", 0) > Fx(85, 100)
           /\ rs > Fx(75, 100)
        THEN [type |-> "show_risk_alert", severity |-> "critical"]
        ELSE IF AnyIn(price_words, transcript_lower)
        THEN [type |-> "show_prompt", priority |-> "medium",
              category |-> "objection_handling"]
        ELSE IF AnyIn(churn_words, transcript_lower)
        THEN [type |-> "show_risk_alert", severity |-> "high"]
        ELSE NoneVal

\* reflex rules reading the emotion test as (risk or angry) and score
InstantRules_OrFirst(emotion, transcript, rs) ==
    LET label == Get(emotion, "label", "neutral")
        risk == Get(emotion, "risk_level", 0)
        transcript_lower == Lower(transcript)
    IN  IF /\ \/ risk > Fx(85, 100)
              \/ label = "angry"
           /\ Get(emotion, "score", 0) > Fx(85, 100)
           /\ rs > Fx(75, 100)
        THEN [type |-> "show_risk_alert", severity |-> "critical"]
        ELSE IF AnyIn(churn_words, transcript_lower)
        THEN [type |-> "show_risk_alert", severity |-> "high"]
        ELSE IF AnyIn(price_words, transcript_lower)
        THEN [type |-> "show_prompt", priority |-> "medium",
              category |-> "objection_handling"]
        ELSE NoneVal

\* MaestroAgent._instant_rules
InstantRules(emotion, transcript, rs) ==
    LET label == Get(emotion, "label", "neutral")
        risk == Get(emotion, "risk_level", 0)
        transcript_lower == Lower(transcript)
    IN  IF /\ \/ risk > Fx(85, 100)
              \/ label = "angry" /\ Get(emotion, "score", 0) > Fx(85, 100)
           /\ rs > Fx(75, 100)
        THEN [type |-> "show_risk_alert", severity |-> "critical"]
        ELSE IF AnyIn(churn_words, transcript_lower)
        THEN [type |-> "show_risk_alert", severity |-> "high"]
        ELSE IF AnyIn(price_words, transcript_lower)
        THEN [type |-> "show_prompt", priority |-> "medium",
              category |-> "objection_handling"]
        ELSE NoneVal

\* MaestroAgent._has_keyword_trigger
HasKeywordTrigger(transcript) == AnyIn(trigger_words, Lower(transcript))

\* should_consult_gemini of _decide_and_act
ShouldConsult(transcript) ==
    /\ now - last_intervention_time >= intervention_cooldown
    /\ \/ risk_score > Fx(4, 10)
       \/ HasKeywordTrigger(transcript)
       \/ Len(call_transcript) % CheckInPeriod = 0

(* ------------------------- _execute_action ----------------------------- *)
\* an action_id that is not fresh
Stamped_SameId(action) ==
    SetKey(SetKey(action, "action_id", 1), "timestamp", now)

\* lines 264-266: the Action with its action_id and timestamp; uuid4 is a
\* value no earlier call returned
Stamped(action) ==
    SetKey(SetKey(action, "action_id", next_id), "timestamp", now)

\* _execute_action without the send
ExecuteActionBegin_NoSend(action) ==
    /\ actions_taken' = Append(actions_taken, Stamped(action))
    /\ UNCHANGED <<ui_sent, connection>>
    /\ next_id' = next_id + 1

\* lines 264-273, up to the await of the send: append and deliver
ExecuteActionBegin(action) ==
    /\ actions_taken' = Append(actions_taken, Stamped(action))
    /\ Send([type |-> "agent_action", data |-> Stamped(action)])
    /\ next_id' = next_id + 1

\* action["enriched_data"] = v: the dict is the one actions_taken holds
Enrich(log, action, v) ==
    [i \in 1..Len(log) |->
        IF log[i].action_id = action.action_id
        THEN SetKey(log[i], "enriched_data", v) ELSE log[i]]

\* lines 275-295, after the send returned: the side effect action_type selects
ExecuteActionFinish(action) ==
    LET action_type == Get(action, "action_type", "None")
    IN  CASE action_type = "escalate" ->
                /\ side_effects' = Append(side_effects,
                       [call |-> "escalate_to_slack", action_id |-> action.action_id])
                /\ UNCHANGED actions_taken
          [] action_type = "update_crm" ->
                /\ side_effects' = Append(side_effects,
                       [call |-> "log_to_crm", action_id |-> action.action_id])
                /\ UNCHANGED actions_taken
          [] action_type = "search_linkedin" ->
                /\ side_effects' = Append(side_effects,
                       [call |-> "search_linkedin", action_id |-> action.action_id])
                /\ actions_taken' = Enrich(actions_taken, action, "linkedin")
          [] action_type = "schedule_call" ->
                /\ side_effects' = Append(side_effects,
                       [call |-> "schedule_followup", action_id |-> action.action_id])
                /\ actions_taken' = Enrich(actions_taken, action, "scheduled")
          [] action_type = "draft_email" ->
                /\ side_effects' = Append(side_effects,
                       [call |-> "draft_followup_email", action_id |-> action.action_id])
                /\ actions_taken' = Enrich(actions_taken, action, "prepared")
          [] OTHER -> UNCHANGED <<side_effects, actions_taken>>

(* ------------------------------ perceive ------------------------------- *)
\* lines 83-111: the state update and the perception_update message; the
\* coroutine is then suspended in the send (slot s)
PerceiveUpdate(s, p) ==
    LET transcript == p.transcript
        emotion == p.emotion
        new_risk == Get(emotion, "risk_level", 0)
    IN  IF transcript = <<>>
        THEN UNCHANGED <<call_transcript, emotion_timeline, risk_score, ui_sent,
                         perceives, accepted_risks, n_accepted, connection>>
        ELSE /\ call_transcript' = AppendCapped(call_transcript,
                     [text |-> transcript, emotion |-> emotion,
                      timestamp |-> n_accepted + 1])
             /\ emotion_timeline' = Append(emotion_timeline, emotion)
             /\ risk_score' = UpdateRisk(risk_score, new_risk)
             /\ Send([type |-> "perception_update", transcript |-> transcript,
                      risk_score |-> risk_score'])
             /\ perceives' = [perceives EXCEPT ![s] =
                                 [pc |-> "update_send", perception |-> p]]
             /\ accepted_risks' = Append(accepted_risks, new_risk)
             /\ n_accepted' = n_accepted + 1

FreeSlot(s) ==
    /\ perceives[s] = Idle
    /\ \A r \in Slots : r < s => perceives[r] # Idle

\* a caller (the audio pipeline) calls perceive(p)
PerceiveFrom(inputs, limit) ==
    \E p \in inputs, s \in Slots :
        /\ n_perceive < limit
        /\ FreeSlot(s)
        /\ n_perceive' = n_perceive + 1
        /\ PerceiveUpdate(s, p)
        /\ UNCHANGED <<actions_taken, last_intervention_time, now, tasks, ctl,
                       side_effects, phase, n_control, next_id>>
        /\ UNCHANGED pipe_vars

Perceive == PerceiveFrom(Perceptions, MaxPerceive)

\* asyncio.create_task(self._strategic_decision(perception)); history: when
\* and in which phase the task was created, and how many Perceptions the
\* session had accepted by then
CreateTask(p) ==
    Append(tasks, [pc |-> "scheduled", perception |-> p, created_at |-> now,
                   created_in |-> phase, risk_seen |-> risk_score,
                   accepted |-> n_accepted])

\* _decide_and_act without the return after the reflex: the gate runs too
DecideAndAct_NoReturn(s) ==
    /\ perceives[s].pc = "update_send"
    /\ LET p == perceives[s].perception
           instant_action == InstantRules(p.emotion, p.transcript, risk_score)
       IN  /\ IF instant_action # NoneVal
              THEN /\ ExecuteActionBegin(instant_action)
                   /\ perceives' = [perceives EXCEPT ![s] =
                          [pc |-> "action_send", perception |-> p,
                           action |-> Stamped(instant_action),
                           gate_open |-> ShouldConsult(p.transcript)]]
              ELSE /\ perceives' = [perceives EXCEPT ![s] = Idle]
                   /\ UNCHANGED <<actions_taken, ui_sent, next_id, connection>>
           /\ tasks' = IF ShouldConsult(p.transcript) THEN CreateTask(p) ELSE tasks
    /\ UNCHANGED <<call_transcript, emotion_timeline, risk_score,
                   last_intervention_time, now, ctl, side_effects, phase,
                   accepted_risks, n_perceive, n_accepted, n_control>>
    /\ UNCHANGED pipe_vars

\* _decide_and_act awaiting the consultation it launches: perceive does not
\* return while the consultation is pending
DecideAndAct_Awaits(s) ==
    /\ perceives[s].pc = "update_send"
    /\ LET p == perceives[s].perception
           instant_action == InstantRules(p.emotion, p.transcript, risk_score)
       IN  IF instant_action # NoneVal
           THEN /\ ExecuteActionBegin(instant_action)
                /\ perceives' = [perceives EXCEPT ![s] =
                       [pc |-> "action_send", perception |-> p,
                        action |-> Stamped(instant_action),
                        gate_open |-> ShouldConsult(p.transcript)]]
                /\ UNCHANGED tasks
           ELSE /\ tasks' = IF ShouldConsult(p.transcript)
                            THEN CreateTask(p) ELSE tasks
                /\ perceives' = [perceives EXCEPT ![s] =
                       IF ShouldConsult(p.transcript)
                       THEN [pc |-> "consulting"] ELSE Idle]
                /\ UNCHANGED <<actions_taken, ui_sent, next_id, connection>>
    /\ UNCHANGED <<call_transcript, emotion_timeline, risk_score,
                   last_intervention_time, now, ctl, side_effects, phase,
                   accepted_risks, n_perceive, n_accepted, n_control>>
    /\ UNCHANGED pipe_vars

\* lines 113-137, resumed after the send: _decide_and_act, and for a reflex
\* the first part of _execute_action
DecideAndAct(s) ==
    /\ perceives[s].pc = "update_send"
    /\ LET p == perceives[s].perception
           instant_action == InstantRules(p.emotion, p.transcript, risk_score)
       IN  IF instant_action # NoneVal
           THEN /\ ExecuteActionBegin(instant_action)
                /\ perceives' = [perceives EXCEPT ![s] =
                       [pc |-> "action_send", perception |-> p,
                        action |-> Stamped(instant_action),
                        gate_open |-> ShouldConsult(p.transcript)]]
                /\ UNCHANGED tasks
           ELSE /\ tasks' = IF ShouldConsult(p.transcript)
                            THEN CreateTask(p) ELSE tasks
                /\ perceives' = [perceives EXCEPT ![s] = Idle]
                /\ UNCHANGED <<actions_taken, ui_sent, next_id, connection>>
    /\ UNCHANGED <<call_transcript, emotion_timeline, risk_score,
                   last_intervention_time, now, ctl, side_effects, phase,
                   accepted_risks, n_perceive, n_accepted, n_control>>
    /\ UNCHANGED pipe_vars

\* the reflex's _execute_action resumed after its send; perceive returns
PerceiveFinish(s) ==
    /\ perceives[s].pc = "action_send"
    /\ ExecuteActionFinish(perceives[s].action)
    /\ perceives' = [perceives EXCEPT ![s] = Idle]
    /\ UNCHANGED <<call_transcript, emotion_timeline, risk_score,
                   last_intervention_time, now, tasks, ctl, ui_sent, phase,
                   accepted_risks, n_perceive, n_accepted, n_control,
                   next_id>>
    /\ UNCHANGED <<pipe_vars, connection>>

(* ------------------------ _strategic_decision -------------------------- *)
SetTask(t, rec) == [tasks EXCEPT ![t] = rec]
\* a finished task: only when it was created is remembered
Done(t) == [pc |-> "done", created_at |-> tasks[t].created_at]

\* lines 184-223: the task's first step, up to the await of the executor
StrategicStart(t) ==
    /\ tasks[t].pc = "scheduled"
    /\ last_intervention_time' = now
    /\ tasks' = SetTask(t, [tasks[t] EXCEPT !.pc = "gemini"])
    /\ UNCHANGED <<call_transcript, emotion_timeline, actions_taken, risk_score,
                   now, perceives, ctl, ui_sent, side_effects, phase,
                   accepted_risks, n_perceive, n_accepted, n_control,
                   next_id>>
    /\ UNCHANGED <<pipe_vars, connection>>

\* a consultation that dispatches whatever action_type the answer has
StrategicResponse_DispatchNone(t, action) ==
    /\ tasks[t].pc = "gemini"
    /\ IF action = GeminiRaised \/ action = NoneVal \/ action = NonObject
       THEN /\ tasks' = SetTask(t, Done(t))
            /\ UNCHANGED <<actions_taken, ui_sent, next_id, connection>>
       ELSE IF "kb_query" \in DOMAIN action
       THEN /\ tasks' = SetTask(t, [pc |-> "kb", action |-> action] @@ tasks[t])
            /\ UNCHANGED <<actions_taken, ui_sent, next_id, connection>>
       ELSE /\ ExecuteActionBegin(action)
            /\ tasks' = SetTask(t, [pc |-> "send", action |-> Stamped(action)]
                                   @@ tasks[t])
    /\ UNCHANGED <<call_transcript, emotion_timeline, risk_score,
                   last_intervention_time, now, perceives, ctl, side_effects,
                   phase, accepted_risks, n_perceive, n_accepted, n_control>>
    /\ UNCHANGED pipe_vars

\* lines 225-235: the answer arrived (or the call raised)
StrategicResponse(t, action) ==
    /\ tasks[t].pc = "gemini"
    /\ IF action = GeminiRaised \/ action = NoneVal \/ action = NonObject
          \/ Get(action, "action_type", "None") = "none"
       THEN /\ tasks' = SetTask(t, Done(t))
            /\ UNCHANGED <<actions_taken, ui_sent, next_id, connection>>
       ELSE IF "kb_query" \in DOMAIN action
       THEN /\ tasks' = SetTask(t, [pc |-> "kb", action |-> action] @@ tasks[t])
            /\ UNCHANGED <<actions_taken, ui_sent, next_id, connection>>
       ELSE /\ ExecuteActionBegin(action)
            /\ tasks' = SetTask(t, [pc |-> "send", action |-> Stamped(action)]
                                   @@ tasks[t])
    /\ UNCHANGED <<call_transcript, emotion_timeline, risk_score,
                   last_intervention_time, now, perceives, ctl, side_effects,
                   phase, accepted_risks, n_perceive, n_accepted, n_control>>
    /\ UNCHANGED pipe_vars

\* a lookup whose result is not attached to the Action
StrategicKb_NoAttach(t, kb_result) ==
    /\ tasks[t].pc = "kb"
    /\ LET action == tasks[t].action
       IN  /\ ExecuteActionBegin(action)
           /\ tasks' = SetTask(t, [pc |-> "send", action |-> Stamped(action)]
                                  @@ tasks[t])
    /\ UNCHANGED <<call_transcript, emotion_timeline, risk_score,
                   last_intervention_time, now, perceives, ctl, side_effects,
                   phase, accepted_risks, n_perceive, n_accepted, n_control>>
    /\ UNCHANGED pipe_vars

\* lines 229-232: query_knowledge_base returned; action["kb_data"] = kb_result
StrategicKb(t, kb_result) ==
    /\ tasks[t].pc = "kb"
    /\ LET action == SetKey(tasks[t].action, "kb_data", kb_result)
       IN  /\ ExecuteActionBegin(action)
           /\ tasks' = SetTask(t, [pc |-> "send", action |-> Stamped(action)]
                                  @@ tasks[t])
    /\ UNCHANGED <<call_transcript, emotion_timeline, risk_score,
                   last_intervention_time, now, perceives, ctl, side_effects,
                   phase, accepted_risks, n_perceive, n_accepted, n_control>>
    /\ UNCHANGED pipe_vars

\* _execute_action resumed after its send; the task ends
StrategicFinish(t) ==
    /\ tasks[t].pc = "send"
    /\ ExecuteActionFinish(tasks[t].action)
    /\ tasks' = SetTask(t, Done(t))
    /\ UNCHANGED <<call_transcript, emotion_timeline, risk_score,
                   last_intervention_time, now, perceives, ctl, ui_sent, phase,
                   accepted_risks, n_perceive, n_accepted, n_control,
                   next_id>>
    /\ UNCHANGED <<pipe_vars, connection>>

(* ----------------------- integration failures -------------------------- *)
\* the action types whose integration call _execute_action awaits itself
AwaitedKinds == {"search_linkedin", "schedule_call", "draft_email"}

\* the IntegrationManager method lines 285-293 call for an action type
IntegrationOf(action_type) ==
    CASE action_type = "search_linkedin" -> "search_linkedin"
      [] action_type = "schedule_call" -> "schedule_followup"
      [] action_type = "draft_email" -> "draft_followup_email"

\* the awaited integration call of action raised inside _execute_action
RaisedCall(action) ==
    [call |-> IntegrationOf(action.action_type), action_id |-> action.action_id,
     status |-> "raised", at |-> next_id]

\* the reflex's _execute_action resumed after its send, the integration call
\* it awaits returning (ok) or raising: nothing in _execute_action or
\* _decide_and_act catches, so the exception leaves perceive
PerceiveFinishWith(s, ok) ==
    IF /\ ~ok
       /\ perceives[s].pc = "action_send"
       /\ Get(perceives[s].action, "action_type", "None") \in AwaitedKinds
    THEN /\ perceives' = [perceives EXCEPT ![s] = [pc |-> "raised"]]
         /\ side_effects' = Append(side_effects, RaisedCall(perceives[s].action))
         /\ UNCHANGED <<call_transcript, emotion_timeline, actions_taken,
                        risk_score, last_intervention_time, now, tasks, ctl,
                        ui_sent, phase, accepted_risks, n_perceive, n_accepted,
                        n_control, next_id>>
         /\ UNCHANGED <<pipe_vars, connection>>
    ELSE PerceiveFinish(s)

\* the consultation's _execute_action resumed after its send; an integration
\* call that raises is caught at line 234 and the task ends
StrategicFinishWith(t, ok) ==
    IF /\ ~ok
       /\ tasks[t].pc = "send"
       /\ Get(tasks[t].action, "action_type", "None") \in AwaitedKinds
    THEN /\ tasks' = SetTask(t, Done(t))
         /\ side_effects' = Append(side_effects, RaisedCall(tasks[t].action))
         /\ UNCHANGED <<call_transcript, emotion_timeline, actions_taken,
                        risk_score, last_intervention_time, now, perceives, ctl,
                        ui_sent, phase, accepted_risks, n_perceive, n_accepted,
                        n_control, next_id>>
         /\ UNCHANGED <<pipe_vars, connection>>
    ELSE StrategicFinish(t)

\* the calls create_task made into tasks of their own
DetachedCalls == {"escalate_to_slack", "log_to_crm", "store_call"}

\* escalate_to_slack, log_to_crm (integrations.py lines 13-40) or store_call
\* ends: it returned, or its request failed and the failure was logged
SideEffectDone(i, ok) ==
    /\ side_effects[i].call \in DetachedCalls
    /\ "status" \notin DOMAIN side_effects[i]
    /\ side_effects' = [side_effects EXCEPT ![i] =
           SetKey(SetKey(@, "status", IF ok THEN "done" ELSE "failed"),
                  "at", next_id)]
    /\ UNCHANGED <<call_transcript, emotion_timeline, actions_taken, risk_score,
                   last_intervention_time, now, perceives, tasks, ctl, ui_sent,
                   phase, accepted_risks, n_perceive, n_accepted, n_control,
                   next_id>>
    /\ UNCHANGED <<pipe_vars, connection>>

(* ------------------------- control messages ---------------------------- *)
\* a start_call that keeps the action log
StartCall_KeepActions ==
    /\ ctl = "recv"
    /\ n_control < MaxControl
    /\ n_control' = n_control + 1
    /\ call_transcript' = <<>>
    /\ emotion_timeline' = <<>>
    /\ risk_score' = 0
    /\ Send([type |-> "call_started", call_id |-> n_control + 1,
             timestamp |-> now])
    /\ phase' = "ACTIVE"
    /\ accepted_risks' = <<>>
    /\ UNCHANGED <<actions_taken, last_intervention_time, now, perceives, tasks,
                   ctl, side_effects, n_perceive, n_accepted, next_id>>
    /\ UNCHANGED pipe_vars

\* handle_frontend_message "call_start": MaestroAgent.start_call; call_id is
\* a uuid4, a value no earlier call had, and goes out in call_started
StartCall ==
    /\ ctl = "recv"
    /\ n_control < MaxControl
    /\ n_control' = n_control + 1
    /\ call_transcript' = <<>>
    /\ emotion_timeline' = <<>>
    /\ actions_taken' = <<>>
    /\ risk_score' = 0
    /\ Send([type |-> "call_started", call_id |-> n_control + 1,
             timestamp |-> now])
    /\ phase' = "ACTIVE"
    /\ accepted_risks' = <<>>
    /\ UNCHANGED <<last_intervention_time, now, perceives, tasks, ctl,
                   side_effects, n_perceive, n_accepted, next_id>>
    /\ UNCHANGED pipe_vars

\* handle_frontend_message "call_end": end_call up to the await of the
\* summary request (lines 306-331)
EndCallBegin ==
    /\ ctl = "recv"
    /\ n_control < MaxControl
    /\ n_control' = n_control + 1
    /\ ctl' = "end_call"
    /\ UNCHANGED <<call_transcript, emotion_timeline, actions_taken, risk_score,
                   last_intervention_time, now, perceives, tasks, ui_sent,
                   side_effects, phase, accepted_risks, n_perceive, n_accepted,
                   next_id>>
    /\ UNCHANGED <<pipe_vars, connection>>

\* max((e.get("risk_level", 0) for e in self.emotion_timeline), default=0)
PeakRisk(timeline) ==
    IF timeline = <<>> THEN 0
    ELSE CHOOSE m \in {Get(timeline[i], "risk_level", 0) : i \in 1..Len(timeline)} :
             \A i \in 1..Len(timeline) : Get(timeline[i], "risk_level", 0) <= m

\* the empty dict
EmptyDict == <<>>

\* an end_call in which the fields of the answer take precedence over the
\* computed ones
EndCallFinish_ResponseWins(outcome) ==
    /\ ctl = "end_call"
    /\ IF outcome = NonObject
       THEN /\ ctl' = "closed"
            /\ connection' = "removed"
            /\ UNCHANGED <<side_effects, ui_sent, phase>>
       ELSE /\ ctl' = "recv"
            /\ LET base == IF outcome = GeminiRaised THEN [outcome |-> "unknown"]
                           ELSE IF outcome = NoneVal THEN EmptyDict
                           ELSE outcome
                   summary == [k \in DOMAIN base \cup {"total_interventions", "peak_risk"} |->
                                  IF k \in DOMAIN base THEN base[k]
                                  ELSE IF k = "total_interventions" THEN Len(actions_taken)
                                  ELSE PeakRisk(emotion_timeline)]
               IN  /\ side_effects' =
                         IF Len(call_transcript) > 3
                         THEN side_effects \o
                                  << [call |-> "log_to_crm", summary |-> summary],
                                     [call |-> "store_call", summary |-> summary] >>
                         ELSE side_effects
                   /\ Send([type |-> "call_summary", data |-> summary])
            /\ phase' = "ENDED"
    /\ UNCHANGED <<call_transcript, emotion_timeline, actions_taken, risk_score,
                   last_intervention_time, now, perceives, tasks, accepted_risks,
                   n_perceive, n_accepted, n_control, next_id>>
    /\ UNCHANGED pipe_vars

\* lines 332-349 and the call_summary send of handle_frontend_message; the
\* summary request raised (GeminiRaised), or its answer did not parse
\* (NoneVal), or parsed to a value that is not an object: then
\* summary.update raises, end_call ends with the exception and
\* websocket_endpoint leaves its message loop (main.py lines 194-196)
EndCallFinish(outcome) ==
    /\ ctl = "end_call"
    /\ IF outcome = NonObject
       THEN /\ ctl' = "closed"
            /\ connection' = "removed"
            /\ UNCHANGED <<side_effects, ui_sent, phase>>
       ELSE /\ ctl' = "recv"
            /\ LET base == IF outcome = GeminiRaised THEN [outcome |-> "unknown"]
                           ELSE IF outcome = NoneVal THEN EmptyDict
                           ELSE outcome
                   summary == SetKey(SetKey(base, "total_interventions",
                                            Len(actions_taken)),
                                     "peak_risk", PeakRisk(emotion_timeline))
               IN  /\ side_effects' =
                         IF Len(call_transcript) > 3
                         THEN side_effects \o
                                  << [call |-> "log_to_crm", summary |-> summary],
                                     [call |-> "store_call", summary |-> summary] >>
                         ELSE side_effects
                   /\ Send([type |-> "call_summary", data |-> summary])
            /\ phase' = "ENDED"
    /\ UNCHANGED <<call_transcript, emotion_timeline, actions_taken, risk_score,
                   last_intervention_time, now, perceives, tasks, accepted_risks,
                   n_perceive, n_accepted, n_control, next_id>>
    /\ UNCHANGED pipe_vars

\* handle_frontend_message "manual_query", up to the await of the search
\* inside query_knowledge_base
ManualQueryBegin ==
    /\ ctl = "recv"
    /\ n_control < MaxControl
    /\ n_control' = n_control + 1
    /\ ctl' = "manual_query"
    /\ UNCHANGED <<call_transcript, emotion_timeline, actions_taken, risk_score,
                   last_intervention_time, now, perceives, tasks, ui_sent,
                   side_effects, phase, accepted_risks, n_perceive, n_accepted,
                   next_id>>
    /\ UNCHANGED <<pipe_vars, connection>>

\* query_knowledge_base returned, with hits or with the error result of its
\* except clause; the result goes out as kb_result
ManualQueryFinish(kb_result) ==
    /\ ctl = "manual_query"
    /\ ctl' = "recv"
    /\ Send([type |-> "kb_result", data |-> kb_result])
    /\ UNCHANGED <<call_transcript, emotion_timeline, actions_taken, risk_score,
                   last_intervention_time, now, perceives, tasks, side_effects,
                   phase, accepted_risks, n_perceive, n_accepted, n_control,
                   next_id>>
    /\ UNCHANGED pipe_vars

\* the event-loop clock advances
Tick ==
    /\ now + TickStep <= MaxTime
    /\ now' = now + TickStep
    /\ UNCHANGED <<call_transcript, emotion_timeline, actions_taken, risk_score,
                   last_intervention_time, perceives, tasks, ctl, ui_sent,
                   side_effects, phase, accepted_risks, n_perceive, n_accepted,
                   n_control, next_id>>
    /\ UNCHANGED <<pipe_vars, connection>>

(* --------------------- AudioPipeline, AudioCapture --------------------- *)
\* pc is the position of the task create_task(pipeline.start()) made
\* a run of consecutive samples of the stream: the position of its first
\* sample in the stream, and its length
Samples(first, len) == [first |-> first, len |-> len]

\* AudioPipeline.__init__ with its AudioCapture.__init__; frames counts the
\* stream callbacks made so far
NewPipeline ==
    [running |-> FALSE, is_running |-> FALSE, stream |-> "none", pc |-> "created",
     transcript_context |-> <<>>, emotion_history |-> <<>>,
     buffer |-> Samples(0, 0), device_sample_rate |-> TARGET_RATE, frames |-> 0]

\* AudioPipeline.stop with AudioCapture.stop
Stopped(rec) ==
    [rec EXCEPT !.running = FALSE, !.is_running = FALSE,
                !.stream = IF @ = "active" THEN "stopped" ELSE @]

\* AudioPipeline.start lines 30-31 with AudioCapture.start up to its first
\* sleep: the stream opens (ok) or "Audio capture failed" and start returns
Started(rec, ok) ==
    IF ok
    THEN [rec EXCEPT !.running = TRUE, !.is_running = TRUE, !.stream = "active",
                     !.pc = "capturing"]
    ELSE [rec EXCEPT !.running = TRUE, !.is_running = TRUE, !.pc = "ended"]

SetPipeline(p, rec) == [pipelines EXCEPT ![p] = rec]

\* AudioPipeline.start, first step of the task: get_vad() and the
\* ModelManager getters suspend only when nothing is loaded yet
PipelineStart(p, ok) ==
    /\ pipelines[p].pc = "created"
    /\ IF ~vad_instance
       THEN /\ vad_instance' = TRUE
            /\ pipelines' = SetPipeline(p, [pipelines[p] EXCEPT !.pc = "vad"])
       ELSE /\ UNCHANGED vad_instance
            /\ pipelines' = SetPipeline(p,
                   IF ~initialized THEN [pipelines[p] EXCEPT !.pc = "models"]
                   ELSE Started(pipelines[p], ok))
    /\ UNCHANGED <<global_pipeline, global_pipeline_lock, endpoints, windows,
                   initialized, applied>>
    /\ UNCHANGED <<agent_vars, now, perceives, tasks, ctl, ui_sent, side_effects,
                   phase, accepted_risks, n_perceive, n_accepted, n_control,
                   next_id, connection, parakeet>>

\* AudioPipeline.start resumed when VoiceActivityDetector.load returned
PipelineVadLoaded(p, ok) ==
    /\ pipelines[p].pc = "vad"
    /\ pipelines' = SetPipeline(p,
           IF ~initialized THEN [pipelines[p] EXCEPT !.pc = "models"]
           ELSE Started(pipelines[p], ok))
    /\ UNCHANGED <<global_pipeline, global_pipeline_lock, endpoints, windows,
                   vad_instance, initialized, applied>>
    /\ UNCHANGED <<agent_vars, now, perceives, tasks, ctl, ui_sent, side_effects,
                   phase, accepted_risks, n_perceive, n_accepted, n_control,
                   next_id, connection, parakeet>>

\* AudioPipeline.start resumed when ModelManager.initialize returned
PipelineModelsLoaded(p, ok) ==
    /\ pipelines[p].pc = "models"
    /\ initialized' = TRUE
    /\ pipelines' = SetPipeline(p, Started(pipelines[p], ok))
    /\ UNCHANGED <<global_pipeline, global_pipeline_lock, endpoints, windows,
                   vad_instance, applied>>
    /\ UNCHANGED <<agent_vars, now, perceives, tasks, ctl, ui_sent, side_effects,
                   phase, accepted_risks, n_perceive, n_accepted, n_control,
                   next_id, connection, parakeet>>

\* AudioCapture.start lines 85-90: the loop wakes, finds is_running false,
\* and closes the stream
CaptureExit(p) ==
    /\ pipelines[p].pc = "capturing"
    /\ ~pipelines[p].is_running
    /\ pipelines' = SetPipeline(p,
           [pipelines[p] EXCEPT !.stream = "closed", !.pc = "ended"])
    /\ UNCHANGED <<global_pipeline, global_pipeline_lock, endpoints, windows,
                   vad_instance, initialized, applied>>
    /\ UNCHANGED <<agent_vars, now, perceives, tasks, ctl, ui_sent, side_effects,
                   phase, accepted_risks, n_perceive, n_accepted, n_control,
                   next_id, connection, parakeet>>

\* warm_up_models, the task lifespan creates at startup: its
\* ModelManager.initialize returns
WarmUpModels ==
    /\ ~initialized
    /\ initialized' = TRUE
    /\ UNCHANGED <<global_pipeline, global_pipeline_lock, endpoints, pipelines,
                   windows, vad_instance, applied>>
    /\ UNCHANGED <<agent_vars, now, perceives, tasks, ctl, ui_sent, side_effects,
                   phase, accepted_risks, n_perceive, n_accepted, n_control,
                   next_id, connection, parakeet>>

(* -------------------------- websocket_endpoint ------------------------- *)
SetEndpoint(e, pc) == [endpoints EXCEPT ![e] = pc]

\* lines 160-169: a websocket connects for the session; ws_manager.connect
\* sends "connected"; the coroutine then waits for global_pipeline_lock
Connect ==
    /\ Len(endpoints) < MaxConnections
    /\ endpoints' = Append(endpoints, "lock")
    /\ connection' = "open"
    /\ ui_sent' = Append(ui_sent, [type |-> "connected"])
    /\ UNCHANGED <<global_pipeline, global_pipeline_lock, pipelines, windows,
                   vad_instance, initialized, applied>>
    /\ UNCHANGED <<agent_vars, now, perceives, tasks, ctl, side_effects, phase,
                   accepted_risks, n_perceive, n_accepted, n_control, next_id, parakeet>>

\* lines 173-177: the lock is taken; an existing pipeline is stopped and the
\* coroutine sleeps 0.5 s holding the lock; with no pipeline, lines 179-184
\* run at once and the lock is released
EndpointAcquire(e) ==
    /\ endpoints[e] = "lock"
    /\ global_pipeline_lock = 0
    /\ IF global_pipeline # 0
       THEN /\ pipelines' = SetPipeline(global_pipeline,
                                        Stopped(pipelines[global_pipeline]))
            /\ global_pipeline_lock' = e
            /\ endpoints' = SetEndpoint(e, "sleeping")
            /\ UNCHANGED global_pipeline
       ELSE /\ pipelines' = Append(pipelines, NewPipeline)
            /\ global_pipeline' = Len(pipelines) + 1
            /\ endpoints' = SetEndpoint(e, "loop")
            /\ UNCHANGED global_pipeline_lock
    /\ UNCHANGED <<windows, vad_instance, initialized, applied>>
    /\ UNCHANGED <<agent_vars, now, perceives, tasks, ctl, ui_sent, side_effects,
                   phase, accepted_risks, n_perceive, n_accepted, n_control,
                   next_id, connection, parakeet>>

\* lines 179-184 after the sleep: the new pipeline replaces the old one, its
\* start() is made a task, and the lock is released
EndpointInit(e) ==
    /\ endpoints[e] = "sleeping"
    /\ pipelines' = Append(pipelines, NewPipeline)
    /\ global_pipeline' = Len(pipelines) + 1
    /\ global_pipeline_lock' = 0
    /\ endpoints' = SetEndpoint(e, "loop")
    /\ UNCHANGED <<windows, vad_instance, initialized, applied>>
    /\ UNCHANGED <<agent_vars, now, perceives, tasks, ctl, ui_sent, side_effects,
                   phase, accepted_risks, n_perceive, n_accepted, n_control,
                   next_id, connection, parakeet>>

\* lines 186-196: receive_json of endpoint e raises WebSocketDisconnect, its
\* peer being gone; ws_manager.disconnect deletes the entry of the session,
\* whichever websocket it holds, and the coroutine ends
EndpointDisconnect(e) ==
    /\ endpoints[e] = "loop"
    /\ endpoints' = SetEndpoint(e, "closed")
    /\ connection' = "removed"
    /\ UNCHANGED <<global_pipeline, global_pipeline_lock, pipelines, windows,
                   vad_instance, initialized, applied, parakeet>>
    /\ UNCHANGED <<agent_vars, now, perceives, tasks, ctl, ui_sent, side_effects,
                   phase, accepted_risks, n_perceive, n_accepted, n_control,
                   next_id>>

(* --------------------------- models/parakeet --------------------------- *)
\* a lock nobody has to wait for
LockFree_Always(pk) == TRUE

\* asyncio.Lock.acquire returns at once: the lock is not held and no
\* coroutine waits for it
LockFree(pk) ==
    /\ pk.lock = 0
    /\ \A c \in DOMAIN pk.callers : pk.callers[c].pc # "wait"

\* get_model lines 31-35 with the lock taken by caller c: the model is
\* returned and the lock released, or _load_model is handed to the executor
Entered(pk, c, waited) ==
    IF pk.model # 0
    THEN [pk EXCEPT !.callers[c] =
             [pc |-> "done", got |-> pk.model, waited |-> waited]]
    ELSE [pk EXCEPT !.lock = c,
                    !.loads = Append(@, "running"),
                    !.callers[c] = [pc |-> "loading", load |-> Len(pk.loads) + 1,
                                    waited |-> waited]]

\* warm_up_models or transcribe calls get_model
GetModelCall ==
    /\ Len(parakeet.callers) < MaxGetModel
    /\ LET c == Len(parakeet.callers) + 1
           called == [parakeet EXCEPT !.callers = Append(@, [pc |-> "wait"])]
       IN  parakeet' = IF LockFree(parakeet) THEN Entered(called, c, FALSE)
                       ELSE called
    /\ UNCHANGED <<global_pipeline, global_pipeline_lock, endpoints, pipelines,
                   windows, vad_instance, initialized, applied>>
    /\ UNCHANGED <<agent_vars, now, perceives, tasks, ctl, ui_sent, side_effects,
                   phase, accepted_risks, n_perceive, n_accepted, n_control,
                   next_id, connection>>

\* the lock was released and the caller that has waited longest takes it
GetModelAcquire(c) ==
    /\ parakeet.callers[c].pc = "wait"
    /\ parakeet.lock = 0
    /\ \A b \in 1..(c - 1) : parakeet.callers[b].pc # "wait"
    /\ parakeet' = Entered(parakeet, c, TRUE)
    /\ UNCHANGED <<global_pipeline, global_pipeline_lock, endpoints, pipelines,
                   windows, vad_instance, initialized, applied>>
    /\ UNCHANGED <<agent_vars, now, perceives, tasks, ctl, ui_sent, side_effects,
                   phase, accepted_risks, n_perceive, n_accepted, n_control,
                   next_id, connection>>

\* line 35 resumed: _load_model returned a model (ok) or None; _model is
\* set, the lock released and the value returned
GetModelLoaded(c, ok) ==
    /\ parakeet.callers[c].pc = "loading"
    /\ LET k == parakeet.callers[c].load
           model == IF ok THEN k ELSE 0
       IN  parakeet' =
               [parakeet EXCEPT
                   !.model = model,
                   !.lock = 0,
                   !.loads[k] = IF ok THEN "ok" ELSE "failed",
                   !.callers[c] = [pc |-> "done", got |-> model,
                                   waited |-> parakeet.callers[c].waited]]
    /\ UNCHANGED <<global_pipeline, global_pipeline_lock, endpoints, pipelines,
                   windows, vad_instance, initialized, applied>>
    /\ UNCHANGED <<agent_vars, now, perceives, tasks, ctl, ui_sent, side_effects,
                   phase, accepted_risks, n_perceive, n_accepted, n_control,
                   next_id, connection>>

(* ------------------------------ chunker -------------------------------- *)
\* the sample rates the input device of SpecChunker may have: the target
\* rate, or a native rate AudioCapture.start falls back to
DeviceRates == {TARGET_RATE, 11025, 44100}

\* _init_stream: "blocksize": int(rate * 0.1)
BlockSize(rate) == rate \div 10

\* _process_chunk lines 111-114: the length of a callback's frame once it is
\* resampled to the target rate
FrameSamples(rate) ==
    IF rate # TARGET_RATE THEN (BlockSize(rate) * TARGET_RATE) \div rate
    ELSE BlockSize(rate)

\* np.concatenate([buffer, frame]) for the next n samples of the stream
Concatenate(buffer, n) == Samples(buffer.first, buffer.len + n)

\* buffer[:k] and buffer[k:]
UpTo(buffer, k) ==
    Samples(buffer.first, IF k < buffer.len THEN k ELSE buffer.len)
From(buffer, k) ==
    IF k < buffer.len THEN Samples(buffer.first + k, buffer.len - k)
    ELSE Samples(buffer.first + buffer.len, 0)

\* a chunker that keeps no overlap
Advance_NoOverlap(buffer) == From(buffer, CHUNK_SAMPLES)

\* line 119: self._buffer = self._buffer[CHUNK_SAMPLES - OVERLAP_SAMPLES:]
Advance(buffer) == From(buffer, CHUNK_SAMPLES - OVERLAP_SAMPLES)

\* a chunker that cuts at most one window in a call: if for while
Chunks_Once(buffer, out) ==
    IF buffer.len >= CHUNK_SAMPLES
    THEN [buffer |-> Advance(buffer), out |-> Append(out, UpTo(buffer, CHUNK_SAMPLES))]
    ELSE [buffer |-> buffer, out |-> out]

\* lines 117-121: the while loop, giving the windows cut and the buffer left
RECURSIVE Chunks(_, _)
Chunks(buffer, out) ==
    IF buffer.len >= CHUNK_SAMPLES
    THEN Chunks(Advance(buffer), Append(out, UpTo(buffer, CHUNK_SAMPLES)))
    ELSE [buffer |-> buffer, out |-> out]

\* AudioCapture._process_chunk: one callback of the stream; every window cut
\* is handed to the event loop as a callback(chunk) coroutine
ProcessChunk(p) ==
    /\ pipelines[p].stream = "active"
    /\ pipelines[p].frames < MaxFrames
    /\ LET cap == pipelines[p]
           r == Chunks(Concatenate(cap.buffer, FrameSamples(cap.device_sample_rate)),
                       <<>>)
       IN  /\ pipelines' = SetPipeline(p,
                  [cap EXCEPT !.buffer = r.buffer, !.frames = @ + 1])
           /\ windows' = windows \o
                  [i \in 1..Len(r.out) |->
                      [pipeline |-> p, pc |-> "queued", audio |-> r.out[i]]]
    /\ UNCHANGED <<global_pipeline, global_pipeline_lock, endpoints,
                   vad_instance, initialized, applied>>
    /\ UNCHANGED <<agent_vars, now, perceives, tasks, ctl, ui_sent, side_effects,
                   phase, accepted_risks, n_perceive, n_accepted, n_control,
                   next_id, connection, parakeet>>

\* lines 111-114: the length of indata of n samples once it is resampled to
\* the target rate
Resampled(n, rate) ==
    IF rate # TARGET_RATE THEN (n * TARGET_RATE) \div rate ELSE n

\* AudioCapture._process_chunk called with indata of n samples, whatever the
\* block size of the stream
ProcessFrame(p, n) ==
    /\ pipelines[p].stream = "active"
    /\ pipelines[p].frames < MaxLongFrames
    /\ LET cap == pipelines[p]
           r == Chunks(Concatenate(cap.buffer, Resampled(n, cap.device_sample_rate)),
                       <<>>)
       IN  /\ pipelines' = SetPipeline(p,
                  [cap EXCEPT !.buffer = r.buffer, !.frames = @ + 1])
           /\ windows' = windows \o
                  [i \in 1..Len(r.out) |->
                      [pipeline |-> p, pc |-> "queued", audio |-> r.out[i]]]
    /\ UNCHANGED <<global_pipeline, global_pipeline_lock, endpoints,
                   vad_instance, initialized, applied>>
    /\ UNCHANGED <<agent_vars, now, perceives, tasks, ctl, ui_sent, side_effects,
                   phase, accepted_risks, n_perceive, n_accepted, n_control,
                   next_id, connection, parakeet>>

(* ---------------------------- on_audio_chunk --------------------------- *)
SetWindow(w, rec) == [windows EXCEPT ![w] = rec]

\* AudioCapture._process_chunk lines 117-121: the stream's callback thread
\* completes a window and hands callback(chunk) to the event loop
EmitWindowUpTo(p, limit) ==
    /\ pipelines[p].stream = "active"
    /\ Len(windows) < limit
    /\ windows' = Append(windows, [pipeline |-> p, pc |-> "queued"])
    /\ UNCHANGED <<global_pipeline, global_pipeline_lock, endpoints, pipelines,
                   vad_instance, initialized, applied>>
    /\ UNCHANGED <<agent_vars, now, perceives, tasks, ctl, ui_sent, side_effects,
                   phase, accepted_risks, n_perceive, n_accepted, n_control,
                   next_id, connection, parakeet>>

EmitWindow(p) == EmitWindowUpTo(p, MaxPerceive)

\* a speech gate that drops nothing
Gated_Never(speech_ratio) == FALSE

\* line 42: if speech_ratio < 0.2
Gated(speech_ratio) == speech_ratio < Fx(2, 10)

\* on_audio_chunk lines 38-53: the coroutines start in the order the loop
\* received them; a window passes the _running test and the speech gate and
\* then waits for both inferences; the score stays with the window
WindowStart(w, speech_ratio) ==
    /\ windows[w].pc = "queued"
    /\ \A v \in 1..(w - 1) : windows[v].pc # "queued"
    /\ windows' = SetWindow(w,
           IF ~pipelines[windows[w].pipeline].running
           THEN [windows[w] EXCEPT !.pc = "done"]
           ELSE [pipeline |-> windows[w].pipeline,
                 pc |-> IF Gated(speech_ratio) THEN "done" ELSE "infer",
                 speech_ratio |-> speech_ratio])
    /\ UNCHANGED <<global_pipeline, global_pipeline_lock, endpoints, pipelines,
                   vad_instance, initialized, applied>>
    /\ UNCHANGED <<agent_vars, now, perceives, tasks, ctl, ui_sent, side_effects,
                   phase, accepted_risks, n_perceive, n_accepted, n_control,
                   next_id, connection, parakeet>>

\* the result of one inference: a value, or the exception gather returned
Ok(v) == [ok |-> TRUE, value |-> v]
Failed == [ok |-> FALSE]

Whitespace == {" ", "\t", "\n"}
\* str.strip()
RECURSIVE Strip(_)
Strip(s) ==
    IF s = <<>> THEN s
    ELSE IF s[1] \in Whitespace THEN Strip(Tail(s))
    ELSE IF s[Len(s)] \in Whitespace THEN Strip(SubSeq(s, 1, Len(s) - 1))
    ELSE s

\* a transcript test without strip()
HasText_NoStrip(transcript_result) ==
    transcript_result.ok /\ transcript_result.value # <<>>

\* lines 59-61 and 66: the transcription did not fail, and
\* transcript and transcript.strip()
HasText(transcript_result) ==
    /\ transcript_result.ok
    /\ transcript_result.value # <<>>
    /\ Strip(transcript_result.value) # <<>>

\* a context list that drops its newest entry when it is full
AppendContext_PopLast(buf, e) ==
    LET grown == Append(buf, e)
    IN  IF Len(grown) > ContextCap THEN SubSeq(grown, 1, Len(grown) - 1) ELSE grown

\* append to a context list kept to its last 15 entries
AppendContext(buf, e) ==
    LET grown == Append(buf, e)
    IN  IF Len(grown) > ContextCap THEN Tail(grown) ELSE grown

\* on_audio_chunk lines 59-80 with perceive lines 83-111: both inferences of
\* window w returned; the Perception is given to perceive, which suspends in
\* its send (slot s); the two results stay with the window; the length of
\* _transcript_context alone decides the pop(0) of both lists
WindowInferred(w, transcript_result, emotion_result, s) ==
    /\ windows[w].pc = "infer"
    /\ FreeSlot(s)
    /\ windows' = SetWindow(w,
           [pipeline |-> windows[w].pipeline, pc |-> "done",
            speech_ratio |-> windows[w].speech_ratio,
            transcript_result |-> transcript_result,
            emotion_result |-> emotion_result])
    /\ LET p == windows[w].pipeline
           emotion == IF emotion_result.ok THEN emotion_result.value ELSE E_default
       IN  IF HasText(transcript_result)
           THEN /\ pipelines' = SetPipeline(p,
                       [pipelines[p] EXCEPT
                           !.transcript_context =
                               AppendContext(@, transcript_result.value),
                           !.emotion_history =
                               IF Len(pipelines[p].transcript_context) + 1 > ContextCap
                               THEN Tail(Append(@, emotion))
                               ELSE Append(@, emotion)])
                /\ PerceiveUpdate(s, Perception(transcript_result.value, emotion))
                /\ n_perceive' = n_perceive + 1
                /\ applied' = Append(applied, w)
           ELSE UNCHANGED <<pipelines, call_transcript, emotion_timeline,
                            risk_score, ui_sent, perceives, accepted_risks,
                            n_accepted, n_perceive, applied, connection>>
    /\ UNCHANGED <<global_pipeline, global_pipeline_lock, endpoints,
                   vad_instance, initialized>>
    /\ UNCHANGED <<actions_taken, last_intervention_time, now, tasks, ctl,
                   side_effects, phase, n_control, next_id, parakeet>>

(* ----------------------- _parse_gemini_response ------------------------ *)
\* the words of the answers drawn below, and the characters of each
Spell ==
    [ action_type |-> <<"a", "c", "t", "i", "o", "n", "_", "t", "y", "p",
          "e">>,
      priority |-> <<"p", "r", "i", "o", "r", "i", "t", "y">>,
      kb_query |-> <<"k", "b", "_", "q", "u", "e", "r", "y">>,
      show_prompt |-> <<"s", "h", "o", "w", "_", "p", "r", "o", "m", "p",
          "t">>,
      show_kb_result |-> <<"s", "h", "o", "w", "_", "k", "b", "_", "r", "e",
          "s", "u", "l", "t">>,
      none |-> <<"n", "o", "n", "e">>,
      medium |-> <<"m", "e", "d", "i", "u", "m">>,
      high |-> <<"h", "i", "g", "h">>,
      low |-> <<"l", "o", "w">>,
      refund |-> <<"r", "e", "f", "u", "n", "d">>,
      meta |-> <<"m", "e", "t", "a">> ]

\* the grave accent of a code fence, a character no TLA+ string can hold:
\* the apostrophe stands for it
Backquote == "'"

\* the Python str of a sequence of characters read by json.loads
Intern(chars) == CHOOSE w \in DOMAIN Spell : Spell[w] = chars

\* '"' + w + '"'
Quoted(w) == <<"\"">> \o Spell[w] \o <<"\"">>

\* text.startswith(c)
StartsWith(text, c) == text # <<>> /\ text[1] = c

\* text.find(c) and text.rfind(c), with 0 where Python gives -1
Find(text, c) ==
    LET at == {i \in 1..Len(text) : text[i] = c}
    IN  IF at = {} THEN 0 ELSE CHOOSE i \in at : \A j \in at : i <= j
RFind(text, c) ==
    LET at == {i \in 1..Len(text) : text[i] = c}
    IN  IF at = {} THEN 0 ELSE CHOOSE i \in at : \A j \in at : i >= j

\* text.find(old) for a string old, with 0 where Python gives -1
FindStr(text, old) ==
    LET at == {i \in 1..(Len(text) - Len(old) + 1) :
                  SubSeq(text, i, i + Len(old) - 1) = old}
    IN  IF at = {} THEN 0 ELSE CHOOSE i \in at : \A j \in at : i <= j

\* text.replace(old, new): the occurrences of old left to right
RECURSIVE Replace(_, _, _)
Replace(text, old, new) ==
    LET i == FindStr(text, old)
    IN  IF i = 0 THEN text
        ELSE SubSeq(text, 1, i - 1) \o new
                 \o Replace(SubSeq(text, i + Len(old), Len(text)), old, new)

\* re.search(r"(\{.*\})", text, re.DOTALL): from the first "{" to the last
\* "}" after it; <<>> (no group can be empty) where there is no match
SearchBraces(text) ==
    IF Find(text, "{") # 0 /\ RFind(text, "}") > Find(text, "{")
    THEN SubSeq(text, Find(text, "{"), RFind(text, "}"))
    ELSE <<>>

\* json.loads on the grammar of the answers: objects whose values are
\* strings or objects, whitespace between the tokens
JsonWs == {" ", "\t", "\n", "\r"}
Parsed(kind, v, rest) == [ok |-> TRUE, kind |-> kind, value |-> v, rest |-> rest]
ParseError == [ok |-> FALSE]

RECURSIVE SkipWs(_)
SkipWs(s) == IF s # <<>> /\ s[1] \in JsonWs THEN SkipWs(Tail(s)) ELSE s

\* a string token at the head of s: up to the next quote, and no control
\* character inside it
ScanString(s) ==
    IF ~StartsWith(s, "\"") \/ Find(Tail(s), "\"") = 0 THEN ParseError
    ELSE LET k == Find(Tail(s), "\"")
             body == SubSeq(Tail(s), 1, k - 1)
         IN  IF \E i \in 1..Len(body) : body[i] \in {"\t", "\n", "\r"}
             THEN ParseError
             ELSE Parsed("str", Intern(body), SubSeq(Tail(s), k + 1, Len(s) - 1))

RECURSIVE ParseValue(_)
RECURSIVE ParseMembers(_, _)
ParseValue(s0) ==
    LET s == SkipWs(s0)
    IN  IF StartsWith(s, "\"") THEN ScanString(s)
        ELSE IF StartsWith(s, "{")
        THEN IF StartsWith(SkipWs(Tail(s)), "}")
             THEN Parsed("dict", EmptyDict, Tail(SkipWs(Tail(s))))
             ELSE ParseMembers(Tail(s), EmptyDict)
        ELSE ParseError

\* the members of an object from the head of s0 on, added to obj: each is a
\* string, a colon and a value, then a comma and a further member, or "}"
ParseMembers(s0, obj) ==
    LET key == ScanString(SkipWs(s0))
    IN  IF ~key.ok \/ ~StartsWith(SkipWs(key.rest), ":") THEN ParseError
        ELSE LET v == ParseValue(Tail(SkipWs(key.rest)))
             IN  IF ~v.ok THEN ParseError
                 ELSE LET b == SkipWs(v.rest)
                          grown == SetKey(obj, key.value, v.value)
                      IN  IF StartsWith(b, ",") THEN ParseMembers(Tail(b), grown)
                          ELSE IF StartsWith(b, "}")
                          THEN Parsed("dict", grown, Tail(b))
                          ELSE ParseError

\* json.loads(text) inside the try: the object, NonObject for any other
\* value, NoneVal where JSONDecodeError was caught
JsonLoads(text) ==
    LET r == ParseValue(text)
    IN  IF ~r.ok \/ SkipWs(r.rest) # <<>> THEN NoneVal
        ELSE IF r.kind = "dict" THEN r.value
        ELSE NonObject

\* MaestroAgent._parse_gemini_response
ParseGeminiResponse(response_text) ==
    LET text == Strip(response_text)
        unfenced == IF Contains(text, <<Backquote, Backquote, Backquote>>) /\ SearchBraces(text) # <<>>
                    THEN SearchBraces(text) ELSE text
        cut == IF ~StartsWith(unfenced, "{")
                  /\ Find(unfenced, "{") # 0 /\ RFind(unfenced, "}") # 0
               THEN SubSeq(unfenced, Find(unfenced, "{"), RFind(unfenced, "}"))
               ELSE unfenced
        repaired == Replace(Replace(Strip(cut), <<",", "\n", "}">>, <<"\n", "}">>),
                            <<",", "}">>, <<"}">>)
    IN  JsonLoads(repaired)

\* the answers of the reasoning service as texts: a JSON object ...
Member(k, v) == Quoted(k) \o <<":", " ">> \o Quoted(v)
J_prompt ==
    <<"{">> \o Member("action_type", "show_prompt") \o <<",", " ">>
            \o Member("priority", "medium") \o <<"}">>
J_kb ==
    <<"{">> \o Member("action_type", "show_kb_result") \o <<",", " ">>
            \o Member("priority", "high") \o <<",", " ">>
            \o Member("kb_query", "refund") \o <<"}">>
J_none ==
    <<"{">> \o Member("action_type", "none") \o <<",", " ">>
            \o Member("priority", "low") \o <<"}">>
JsonObjects == {J_prompt, J_kb, J_none}

\* ... bare, in a code fence, with a trailing comma before the closing
\* brace, and with prose before or after it
Fenced(j) == <<Backquote, Backquote, Backquote, "j", "s", "o", "n", "\n">> \o j \o <<"\n", Backquote, Backquote, Backquote>>
CommaGaps == {<<>>, <<"\n">>, <<" ">>}
TrailingComma(j, gap) == SubSeq(j, 1, Len(j) - 1) \o <<",">> \o gap \o <<"}">>
Prose_sure == <<"S", "u", "r", "e", ":", " ">>
Prose_ok == <<" ", "o", "k">>
Prose_braces == <<"U", "s", "e", " ", "{", "n", "a", "m", "e", "}", ":", " ">>
Leads == {<<>>, Prose_sure, Prose_braces}
Trails == {<<>>, Prose_ok}
Renderings(j) ==
    {j, Fenced(j)}
        \cup {TrailingComma(j, gap) : gap \in CommaGaps}
        \cup {lead \o j \o trail : lead \in Leads, trail \in Trails}

\* texts that hold no JSON
NonJsonTexts == {<<>>, <<"S", "o", "r", "r", "y">>, <<"{", "o", "o", "p", "s">>}

ParserTexts == UNION {Renderings(j) : j \in JsonObjects} \cup NonJsonTexts

\* lines 225-235: the executor returned the answer text
StrategicAnswer(t, response) ==
    StrategicResponse(t, ParseGeminiResponse(response))

(* --------------------------- specifications ---------------------------- *)
Next ==
    \/ Perceive
    \/ \E s \in Slots : DecideAndAct(s)
    \/ \E s \in Slots : PerceiveFinish(s)
    \/ \E t \in DOMAIN tasks : StrategicStart(t)
    \/ \E t \in DOMAIN tasks, a \in SpecOutcomes : StrategicResponse(t, a)
    \/ \E t \in DOMAIN tasks, k \in SpecKbResults : StrategicKb(t, k)
    \/ \E t \in DOMAIN tasks : StrategicFinish(t)
    \/ StartCall
    \/ EndCallBegin
    \/ \E o \in SpecSummaries : EndCallFinish(o)
    \/ Tick

Spec == Init /\ [][Next]_vars

\* the perception loop alone: no control message arrives
LoopNext ==
    \/ Perceive
    \/ \E s \in Slots : DecideAndAct(s)
    \/ \E s \in Slots : PerceiveFinish(s)
    \/ \E t \in DOMAIN tasks : StrategicStart(t)
    \/ \E t \in DOMAIN tasks, a \in SpecOutcomes : StrategicResponse(t, a)
    \/ \E t \in DOMAIN tasks, k \in SpecKbResults : StrategicKb(t, k)
    \/ \E t \in DOMAIN tasks : StrategicFinish(t)
    \/ Tick

SpecLoop == Init /\ [][LoopNext]_vars

\* a long call, each perceive() called when the one before has returned: the
\* first RingVaried calls draw any Perception of RingPerceptions, the later
\* ones repeat one Perception; call_start arrives early in the call
RingInputs ==
    IF n_perceive < RingVaried THEN RingPerceptions
    ELSE {Perception(T_cancel, E_max)}

RingPerceive ==
    /\ \A s \in Slots : perceives[s] = Idle
    /\ PerceiveFrom(RingInputs, MaxRingPerceive)

RingStartCall == n_perceive <= RingVaried /\ StartCall

RingNext ==
    \/ RingPerceive
    \/ \E s \in Slots : DecideAndAct(s)
    \/ \E s \in Slots : PerceiveFinish(s)
    \/ RingStartCall

SpecRing == Init /\ [][RingNext]_vars

\* the dispatcher: consultations answered with every action type and every
\* failure, the integration calls failing or not
DispatchPerceptions ==
    {Perception(T_why, E_neutral), Perception(T_cancel, E_angry)}

DispatchPerceive == PerceiveFrom(DispatchPerceptions, MaxPerceive)

DispatchNext ==
    \/ DispatchPerceive
    \/ \E s \in Slots : DecideAndAct(s)
    \/ \E s \in Slots, ok \in BOOLEAN : PerceiveFinishWith(s, ok)
    \/ \E t \in DOMAIN tasks : StrategicStart(t)
    \/ \E t \in DOMAIN tasks, a \in DispatchOutcomes : StrategicResponse(t, a)
    \/ \E t \in DOMAIN tasks, k \in DispatchKbResults : StrategicKb(t, k)
    \/ \E t \in DOMAIN tasks, ok \in BOOLEAN : StrategicFinishWith(t, ok)
    \/ \E i \in DOMAIN side_effects, ok \in BOOLEAN : SideEffectDone(i, ok)

SpecDispatch == Init /\ [][DispatchNext]_vars

\* one call from start to end: perceive() called when the call before has
\* returned, the control messages, and every answer to the summary request
CallPerceptions == {Perception(T_cancel, E_angry)}

CallSummaries == { [outcome |-> "resolved"], GeminiRaised, NoneVal, NonObject }

CallPerceive ==
    /\ \A s \in Slots : perceives[s] = Idle
    /\ PerceiveFrom(CallPerceptions, MaxCallPerceive)

CallNext ==
    \/ CallPerceive
    \/ \E s \in Slots : DecideAndAct(s)
    \/ \E s \in Slots : PerceiveFinish(s)
    \/ StartCall
    \/ EndCallBegin
    \/ \E o \in CallSummaries : EndCallFinish(o)

SpecCall == Init /\ [][CallNext]_vars

\* the chunker of one capturing pipeline: a websocket connected, the models
\* were loaded and AudioCapture.start opened the stream at one of DeviceRates
ChunkerInit ==
    /\ call_transcript = <<>>
    /\ emotion_timeline = <<>>
    /\ actions_taken = <<>>
    /\ risk_score = 0
    /\ last_intervention_time = 0
    /\ now = StartTime
    /\ perceives = [s \in Slots |-> Idle]
    /\ tasks = <<>>
    /\ ctl = "recv"
    /\ ui_sent = << [type |-> "connected"] >>
    /\ side_effects = <<>>
    /\ phase = "IDLE"
    /\ accepted_risks = <<>>
    /\ n_perceive = 0
    /\ n_accepted = 0
    /\ n_control = 0
    /\ next_id = 1
    /\ global_pipeline = 1
    /\ global_pipeline_lock = 0
    /\ endpoints = << "loop" >>
    /\ \E rate \in DeviceRates :
          pipelines = << [Started(NewPipeline, TRUE) EXCEPT
                             !.device_sample_rate = rate] >>
    /\ windows = <<>>
    /\ vad_instance = TRUE
    /\ initialized = TRUE
    /\ applied = <<>>
    /\ connection = "open"
    /\ parakeet = [model |-> 0, lock |-> 0, loads |-> <<>>, callers |-> <<>>]

ChunkerNext == \E p \in DOMAIN pipelines : ProcessChunk(p)

SpecChunker == ChunkerInit /\ [][ChunkerNext]_vars

\* the audio pipelines of the process and the windows they turn into
\* Perceptions, with the results the inferences of SpecPipeline draw
PipeTranscripts == {Ok(T_hi), Ok(T_blank), Ok(T_empty), Failed}
PipeEmotions == {Ok(E_neutral), Failed}
PipeRatios == {Fx(1, 10), Fx(5, 10)}

PipelineNext ==
    \/ WarmUpModels
    \/ Connect
    \/ \E e \in DOMAIN endpoints : EndpointAcquire(e)
    \/ \E e \in DOMAIN endpoints : EndpointInit(e)
    \/ \E p \in DOMAIN pipelines, ok \in BOOLEAN : PipelineStart(p, ok)
    \/ \E p \in DOMAIN pipelines, ok \in BOOLEAN : PipelineVadLoaded(p, ok)
    \/ \E p \in DOMAIN pipelines, ok \in BOOLEAN : PipelineModelsLoaded(p, ok)
    \/ \E p \in DOMAIN pipelines : CaptureExit(p)
    \/ \E p \in DOMAIN pipelines : EmitWindow(p)
    \/ \E w \in DOMAIN windows, r \in PipeRatios : WindowStart(w, r)
    \/ \E w \in DOMAIN windows, t \in PipeTranscripts, e \in PipeEmotions,
          s \in Slots : WindowInferred(w, t, e, s)
    \/ \E s \in Slots : DecideAndAct(s)

SpecPipeline == Init /\ [][PipelineNext]_vars

\* the windows of one capturing pipeline on their way to perceive
WindowsNext ==
    \/ \E p \in DOMAIN pipelines : EmitWindow(p)
    \/ \E w \in DOMAIN windows, r \in PipeRatios : WindowStart(w, r)
    \/ \E w \in DOMAIN windows, t \in PipeTranscripts, e \in PipeEmotions,
          s \in Slots : WindowInferred(w, t, e, s)
    \/ \E s \in Slots : DecideAndAct(s)

SpecWindows == ChunkerInit /\ [][WindowsNext]_vars

\* the periodic check-in of a long quiet call: perceive() called when the
\* call before has returned, every Perception with low risk and no keyword;
\* the consultations launched start, and the service does not answer
CheckInPerceptions == {Perception(T_hi, E_neutral)}

CheckInPerceive ==
    /\ \A s \in Slots : perceives[s] = Idle
    /\ PerceiveFrom(CheckInPerceptions, MaxRingPerceive)

CheckInNext ==
    \/ CheckInPerceive
    \/ \E s \in Slots : DecideAndAct(s)
    \/ \E t \in DOMAIN tasks : StrategicStart(t)
    \/ Tick

SpecCheckIn == Init /\ [][CheckInNext]_vars

\* the reflex rules over a call whose risk rises: perceive() called when the
\* call before has returned, with every pairing of keywords and emotion
ReflexPerceptions ==
    { Perception(T_hi, E_max), Perception(T_both, E_max),
      Perception(T_price, E_sad), Perception(T_cancel, E_angry),
      Perception(T_cancel, E_tense), Perception(T_price, E_hot) }

ReflexPerceive ==
    /\ \A s \in Slots : perceives[s] = Idle
    /\ PerceiveFrom(ReflexPerceptions, MaxReflexPerceive)

ReflexNext ==
    \/ ReflexPerceive
    \/ \E s \in Slots : DecideAndAct(s)
    \/ \E s \in Slots : PerceiveFinish(s)

SpecReflex == Init /\ [][ReflexNext]_vars

\* the consultations of a call answered with the texts of ParserTexts
ParserPerceptions == {Perception(T_why, E_neutral)}

ParserPerceive == PerceiveFrom(ParserPerceptions, MaxPerceive)

ParserNext ==
    \/ ParserPerceive
    \/ \E s \in Slots : DecideAndAct(s)
    \/ \E t \in DOMAIN tasks : StrategicStart(t)
    \/ \E t \in DOMAIN tasks, text \in ParserTexts : StrategicAnswer(t, text)
    \/ \E t \in DOMAIN tasks : StrategicResponse(t, GeminiRaised)
    \/ \E t \in DOMAIN tasks, k \in DispatchKbResults : StrategicKb(t, k)
    \/ \E t \in DOMAIN tasks : StrategicFinish(t)

SpecParser == Init /\ [][ParserNext]_vars

\* a call whose websocket peer goes away at any moment: perceive() called
\* when the call before has returned, and call_end messages
TransportNext ==
    \/ CallPerceive
    \/ \E s \in Slots : DecideAndAct(s)
    \/ \E s \in Slots : PerceiveFinish(s)
    \/ EndCallBegin
    \/ \E o \in SpecSummaries : EndCallFinish(o)
    \/ PeerCloses

SpecTransport == Init /\ [][TransportNext]_vars

\* the control messages of a session over a websocket that stays open, with
\* every answer to the summary request and every result of the search
ManualKbResults == SpecKbResults \cup DispatchKbResults

BoundaryNext ==
    \/ CallPerceive
    \/ \E s \in Slots : DecideAndAct(s)
    \/ \E s \in Slots : PerceiveFinish(s)
    \/ StartCall
    \/ EndCallBegin
    \/ \E o \in CallSummaries : EndCallFinish(o)
    \/ ManualQueryBegin
    \/ \E k \in ManualKbResults : ManualQueryFinish(k)

SpecBoundary == Init /\ [][BoundaryNext]_vars

\* the perception loop beside consultations that are answered late or not at
\* all: every answer is one prompt Action
PendingOutcomes == {A_prompt}

PendingNext ==
    \/ DispatchPerceive
    \/ \E s \in Slots : DecideAndAct(s)
    \/ \E s \in Slots : PerceiveFinish(s)
    \/ \E t \in DOMAIN tasks : StrategicStart(t)
    \/ \E t \in DOMAIN tasks, a \in PendingOutcomes : StrategicResponse(t, a)
    \/ \E t \in DOMAIN tasks : StrategicFinish(t)

SpecPending == Init /\ [][PendingNext]_vars

\* the summary of a call whose Perceptions differ in risk: perceive() called
\* when the call before has returned, the control messages, and answers to
\* the summary request, one of them with fields named like the computed ones
SummaryPerceptions ==
    { Perception(T_cancel, E_angry), Perception(T_hi, E_neutral),
      Perception(T_hi, E_default) }

A_summary ==
    [outcome |-> "churned", total_interventions |-> 99, peak_risk |-> Fx(1, 100)]

SummaryAnswers == CallSummaries \cup {A_summary}

SummaryPerceive ==
    /\ \A s \in Slots : perceives[s] = Idle
    /\ PerceiveFrom(SummaryPerceptions, MaxSummaryPerceive)

SummaryNext ==
    \/ SummaryPerceive
    \/ \E s \in Slots : DecideAndAct(s)
    \/ \E s \in Slots : PerceiveFinish(s)
    \/ StartCall
    \/ EndCallBegin
    \/ \E o \in SummaryAnswers : EndCallFinish(o)

SpecSummary == Init /\ [][SummaryNext]_vars

\* the callers of get_model: the warm-up task and the transcriptions of the
\* /ws/transcribe connections
ParakeetNext ==
    \/ GetModelCall
    \/ \E c \in DOMAIN parakeet.callers : GetModelAcquire(c)
    \/ \E c \in DOMAIN parakeet.callers, ok \in BOOLEAN : GetModelLoaded(c, ok)

SpecParakeet == Init /\ [][ParakeetNext]_vars

\* the chunker fed with indata of any length: a usual block, one short of a
\* window, and blocks that complete two and three windows at once
FrameLengths == {1600, 31999, 70000, 100000}

FramesNext ==
    \E p \in DOMAIN pipelines, n \in FrameLengths : ProcessFrame(p, n)

SpecFrames == ChunkerInit /\ [][FramesNext]_vars

\* a session whose client connects again under the same session id, each
\* websocket closed by its peer at any moment, beside the perception loop
ReconnectNext ==
    \/ Connect
    \/ \E e \in DOMAIN endpoints : EndpointAcquire(e)
    \/ \E e \in DOMAIN endpoints : EndpointInit(e)
    \/ \E e \in DOMAIN endpoints : EndpointDisconnect(e)
    \/ CallPerceive
    \/ \E s \in Slots : DecideAndAct(s)
    \/ \E s \in Slots : PerceiveFinish(s)

SpecReconnect == Init /\ [][ReconnectNext]_vars

\* a long run of one capturing pipeline, each window emitted when the one
\* before is done and its perceive has returned: the first ContextVaried
\* windows draw any result, the later ones alternate between two transcripts
\* and have every third emotion classification fail
ContextTranscripts(w) ==
    IF w <= ContextVaried THEN PipeTranscripts
    ELSE IF w % 2 = 0 THEN {Ok(T_hi)} ELSE {Ok(T_why)}

ContextEmotions(w) ==
    IF w <= ContextVaried THEN PipeEmotions
    ELSE IF w % 3 = 0 THEN {Failed} ELSE {Ok(E_neutral)}

ContextRatios(w) == IF w <= ContextVaried THEN PipeRatios ELSE {Fx(5, 10)}

ContextEmit ==
    /\ \A w \in DOMAIN windows : windows[w].pc = "done"
    /\ \A s \in Slots : perceives[s] = Idle
    /\ \E p \in DOMAIN pipelines : EmitWindowUpTo(p, MaxContextWindows)

ContextNext ==
    \/ ContextEmit
    \/ \E w \in DOMAIN windows :
          \E r \in ContextRatios(w) : WindowStart(w, r)
    \/ \E w \in DOMAIN windows :
          \E t \in ContextTranscripts(w), e \in ContextEmotions(w), s \in Slots :
              WindowInferred(w, t, e, s)
    \/ \E s \in Slots : DecideAndAct(s)

SpecContext == ChunkerInit /\ [][ContextNext]_vars

(* ------------------------------- claims -------------------------------- *)
\* the consultations started and not yet finished
InFlight == {t \in DOMAIN tasks : tasks[t].pc \in {"gemini", "kb", "send"}}

\* C1: at most one strategic consultation of the session is in flight at any
\* time.
C1_AtMostOneInFlight == Cardinality(InFlight) <= 1

\* C2: any two consultation launches of the session are at least the
\* cooldown (8 s) apart.
C2_LaunchesCooldownApart ==
    \A i, j \in DOMAIN tasks :
        i < j => tasks[j].created_at - tasks[i].created_at >= intervention_cooldown

\* C3: when _instant_rules returns an Action for a Perception, the step that
\* decides that Perception dispatches exactly that Action (appended to
\* actions_taken and sent as agent_action) and launches no consultation,
\* whatever the elapsed time, the risk score and the transcript count.
C3_ReflexPreempts ==
    [][\A s \in Slots :
          (perceives[s].pc = "update_send" /\ perceives'[s] # perceives[s]) =>
              LET p == perceives[s].perception
                  reflex == InstantRules(p.emotion, p.transcript, risk_score)
              IN  reflex # NoneVal =>
                      /\ tasks' = tasks
                      /\ actions_taken' = Append(actions_taken, Stamped(reflex))
                      /\ ui_sent' = Append(ui_sent,
                             [type |-> "agent_action", data |-> Stamped(reflex)])
      ]_vars

\* C3 witness: a reflex Action was dispatched for a Perception whose
\* consultation gate was open (cooldown elapsed and a trigger present).
C3_Witness ==
    \E s \in Slots :
        /\ perceives[s].pc = "action_send"
        /\ perceives[s].gate_open
        /\ tasks = <<>>

\* C4: once the session is ENDED, a perceive call changes neither
\* call_transcript, emotion_timeline, risk_score nor actions_taken, sends
\* nothing to the UI and launches no consultation.
C4_NoPerceptionAfterEnd ==
    [][(phase = "ENDED" /\ n_perceive' = n_perceive + 1) =>
          UNCHANGED <<call_transcript, emotion_timeline, risk_score,
                      actions_taken, ui_sent, tasks>>
      ]_vars

\* C5: a consultation launched before the session ended and answered after
\* end_call dispatches nothing: actions_taken and the UI messages stay as
\* they are.
C5_NoDispatchAfterEnd ==
    [][\A t \in DOMAIN tasks :
          ( /\ phase = "ENDED"
            /\ tasks[t].pc \in {"gemini", "kb"}
            /\ tasks[t].created_in # "ENDED"
            /\ tasks'[t].pc = "send" ) =>
              UNCHANGED <<actions_taken, ui_sent>>
      ]_vars

\* the pipelines that are running: _running set and the capture loop active
Running ==
    {p \in DOMAIN pipelines :
        /\ pipelines[p].running
        /\ pipelines[p].is_running
        /\ pipelines[p].pc = "capturing"}

\* C6: process-wide, at most one AudioPipeline is running at any time.
C6_OnePipelineRunning == Cardinality(Running) <= 1

\* C7: within one session, Perceptions are applied to the session state in
\* the order the chunker emitted their windows.
C7_AppliedInWindowOrder ==
    \A i, j \in DOMAIN applied : i < j => applied[i] < applied[j]

Min(a, b) == IF a <= b THEN a ELSE b

\* C8: risk_score is in [0,1] in every reachable state, and is 0 at
\* construction and after start_call, before any Perception is accepted.
C8_RiskInRange ==
    /\ risk_score >= 0
    /\ risk_score <= RiskScale
    /\ accepted_risks = <<>> => risk_score = 0

\* C8 witness: after several accepted Perceptions of risk level 1 the score
\* is close to the upper end of the range.
C8_Witness == Len(accepted_risks) >= 3 /\ risk_score > Fx(99, 100)

\* the recurrence s0 = 0, s_i = 0.7 * s_(i-1) + 0.3 * r_i over r1..rn
RECURSIVE Ewma(_)
Ewma(rs) ==
    IF rs = <<>> THEN 0
    ELSE (Ewma(SubSeq(rs, 1, Len(rs) - 1)) * 7) \div 10 + (rs[Len(rs)] * 3) \div 10

\* C9: risk_score equals the recurrence over the risk levels of the
\* Perceptions accepted since start_call, in acceptance order; a perceive
\* call that is not accepted leaves risk_score as it is.
C9_RiskIsEwma ==
    [](risk_score = Ewma(accepted_risks))
    /\ [][(n_perceive' = n_perceive + 1 /\ n_accepted' = n_accepted) =>
             risk_score' = risk_score]_vars

\* C9 witness: three Perceptions of different risk levels were accepted and
\* one was rejected, with no start_call in between.
C9_Witness ==
    /\ n_control = 0
    /\ n_perceive > n_accepted
    /\ Len(accepted_risks) >= 3
    /\ \E i, j \in DOMAIN accepted_risks : accepted_risks[i] # accepted_risks[j]
    /\ risk_score > 0

\* C10: call_transcript holds at most 50 entries, and they are the most
\* recently accepted ones in acceptance order: the oldest is evicted first.
C10_RingFifo ==
    LET n == Len(call_transcript)
        m == Len(accepted_risks)
    IN  /\ n = Min(TranscriptCap, m)
        /\ \A i \in 1..n :
              /\ call_transcript[i].timestamp = n_accepted - n + i
              /\ Get(call_transcript[i].emotion, "risk_level", 0)
                     = accepted_risks[m - n + i]

\* C10 witness: more than 50 Perceptions were accepted in one call and the
\* buffer is full.
C10_Witness ==
    /\ Len(accepted_risks) > TranscriptCap
    /\ Len(call_transcript) = TranscriptCap

\* the agent_action messages handed to the UI transport, in order
AgentActions == SelectSeq(ui_sent, LAMBDA m : m.type = "agent_action")

\* C11: no two entries of actions_taken and no two agent_action messages of
\* the session carry the same action_id, reflex or consultation alike.
C11_UniqueActionIds ==
    /\ \A i, j \in DOMAIN actions_taken :
           i < j => actions_taken[i].action_id # actions_taken[j].action_id
    /\ \A i, j \in DOMAIN AgentActions :
           i < j => AgentActions[i].data.action_id # AgentActions[j].data.action_id

\* C11 witness: a reflex Action and a consultation's Action were both
\* dispatched.
C11_Witness ==
    \E i, j \in DOMAIN actions_taken :
        /\ "type" \in DOMAIN actions_taken[i]
        /\ "action_type" \in DOMAIN actions_taken[j]

\* the side-effect calls begun for the Action with this action_id
CallsFor(id) ==
    {j \in DOMAIN side_effects :
        /\ "action_id" \in DOMAIN side_effects[j]
        /\ side_effects[j].action_id = id}

\* C12: an Action is stamped with action_id and timestamp, appended to
\* actions_taken and handed to the UI as agent_action in one step, and every
\* side-effect call for it begins only after that message was handed over.
C12_DeliveredBeforeSideEffect ==
    /\ [](\A i \in DOMAIN actions_taken :
             \E k \in DOMAIN AgentActions :
                 LET d == AgentActions[k].data
                 IN  /\ d.action_id = actions_taken[i].action_id
                     /\ "timestamp" \in DOMAIN d)
    /\ [][\A j \in DOMAIN side_effects' :
             (j \notin DOMAIN side_effects /\ "action_id" \in DOMAIN side_effects'[j]) =>
                 \E k \in DOMAIN AgentActions :
                     AgentActions[k].data.action_id = side_effects'[j].action_id
         ]_vars

\* C12 witness: an escalation was delivered to the UI and its notification
\* call has begun.
C12_Witness ==
    \E j \in DOMAIN side_effects, k \in DOMAIN AgentActions :
        /\ side_effects[j].call = "escalate_to_slack"
        /\ AgentActions[k].data.action_id = side_effects[j].action_id

\* the one side effect each action_type selects
ExpectedCall(action_type) ==
    CASE action_type = "escalate" -> {"escalate_to_slack"}
      [] action_type = "update_crm" -> {"log_to_crm"}
      [] action_type = "search_linkedin" -> {"search_linkedin"}
      [] action_type = "schedule_followup" -> {"schedule_followup"}
      [] OTHER -> {}

\* C13: each Action has at most one side effect, the one its action_type
\* selects: escalate, update_crm, search_linkedin and schedule_followup have
\* theirs, every other action_type has none and gets no enriched_data.
C13_SideEffectByType ==
    \A i \in DOMAIN actions_taken :
        LET a == actions_taken[i]
            action_type == Get(a, "action_type", "None")
            calls == CallsFor(a.action_id)
        IN  /\ Cardinality(calls) <= 1
            /\ \A j \in calls : side_effects[j].call \in ExpectedCall(action_type)
            /\ ExpectedCall(action_type) = {} => "enriched_data" \notin DOMAIN a

\* a step in which a consultation or an integration call fails
FailureStep ==
    \/ \E t \in DOMAIN tasks :
          /\ tasks[t].pc \in {"gemini", "send"}
          /\ tasks'[t].pc = "done"
          /\ actions_taken' = actions_taken
          /\ side_effects' = side_effects
    \/ \E j \in DOMAIN side_effects' :
          /\ "status" \in DOMAIN side_effects'[j]
          /\ side_effects'[j].status \in {"failed", "raised"}
          /\ j \in DOMAIN side_effects => side_effects'[j] # side_effects[j]

\* C14: no failure of a consultation or of an integration call leaves a
\* perceive call with an exception, changes the session state or the
\* perceive calls under way, or keeps a further Perception from being taken.
C14_FailuresContained ==
    /\ [](\A s \in Slots : perceives[s].pc # "raised")
    /\ [](n_perceive < MaxPerceive => ENABLED DispatchPerceive)
    /\ [][FailureStep =>
             UNCHANGED <<call_transcript, emotion_timeline, actions_taken,
                         risk_score, perceives, ui_sent, n_perceive, n_accepted,
                         next_id>>
         ]_vars

\* C14 witness: an integration call failed, and an Action dispatched after
\* the failure was delivered to the UI.
C14_Witness ==
    \E j \in DOMAIN side_effects, k \in DOMAIN AgentActions :
        /\ "status" \in DOMAIN side_effects[j]
        /\ side_effects[j].status \in {"failed", "raised"}
        /\ AgentActions[k].data.action_id >= side_effects[j].at

\* the window w ended in this step with both of its inferences returned
Inferred(w) == windows[w].pc = "infer" /\ windows'[w].pc = "done"

\* C15: a window whose speech-ratio score is below 0.2 starts no inference,
\* reaches perceive never and changes no pipeline or session state; a window
\* of a running pipeline with score 0.2 or more goes on to inference.
C15_SpeechGate ==
    /\ [](\A w \in DOMAIN windows :
             windows[w].pc = "infer" => windows[w].speech_ratio >= Fx(2, 10))
    /\ [](\A i \in DOMAIN applied :
             windows[applied[i]].speech_ratio >= Fx(2, 10))
    /\ [][\A w \in DOMAIN windows :
             (windows[w].pc = "queued" /\ "speech_ratio" \in DOMAIN windows'[w]) =>
                 IF windows'[w].speech_ratio < Fx(2, 10)
                 THEN /\ windows'[w].pc = "done"
                      /\ UNCHANGED <<call_transcript, emotion_timeline,
                                     actions_taken, risk_score, perceives, tasks,
                                     ui_sent, side_effects, n_perceive,
                                     n_accepted, pipelines, applied>>
                 ELSE windows'[w].pc = "infer"
         ]_vars

\* C15 witness: one window was dropped by the gate and another one is in
\* inference.
C15_Witness ==
    \E v, w \in DOMAIN windows :
        /\ windows[v].pc = "done"
        /\ "speech_ratio" \in DOMAIN windows[v]
        /\ windows[v].speech_ratio < Fx(2, 10)
        /\ windows[w].pc = "infer"

\* the transcription of a window failed or gave no text
NoText(transcript_result) ==
    \/ ~transcript_result.ok
    \/ Strip(transcript_result.value) = <<>>

\* C16: when the transcription of a gated window fails, or gives an empty or
\* whitespace-only transcript, perceive is not called and the histories and
\* risk_score stay as they are, whatever the emotion classification gave.
C16_NoTextNoPerception ==
    [][\A w \in DOMAIN windows :
          (Inferred(w) /\ NoText(windows'[w].transcript_result)) =>
              UNCHANGED <<n_perceive, n_accepted, applied, call_transcript,
                          emotion_timeline, risk_score, accepted_risks,
                          perceives, ui_sent, pipelines>>
      ]_vars

\* C16 witness: a window ended with a whitespace-only transcript and a
\* successful emotion classification, after another window was perceived.
C16_Witness ==
    \E w \in DOMAIN windows :
        /\ windows[w].pc = "done"
        /\ "transcript_result" \in DOMAIN windows[w]
        /\ windows[w].transcript_result = Ok(T_blank)
        /\ windows[w].emotion_result.ok
        /\ applied # <<>>

\* the neutral default emotion with its risk level
NeutralDefault == [label |-> "neutral", score |-> Fx(5, 10), risk_level |-> Fx(2, 10)]

\* C17: when the transcription of a window gives text and its emotion
\* classification fails, the Perception carries the neutral default emotion
\* with risk_level 0.2 and risk_score is updated with new_risk = 0.2.
C17_NeutralDefaultRisk ==
    [][\A w \in DOMAIN windows :
          ( /\ Inferred(w)
            /\ ~NoText(windows'[w].transcript_result)
            /\ ~windows'[w].emotion_result.ok ) =>
              /\ risk_score' = UpdateRisk(risk_score, Fx(2, 10))
              /\ emotion_timeline' = Append(emotion_timeline, NeutralDefault)
      ]_vars

\* buffer[-k:]
Last(buffer, k) ==
    IF k < buffer.len THEN Samples(buffer.first + buffer.len - k, k) ELSE buffer

\* C18: every window the chunker emits has exactly 32000 samples, and the
\* first 4800 samples of each window are the last 4800 samples of the window
\* before it.
C18_WindowOverlap ==
    /\ \A i \in DOMAIN windows : windows[i].audio.len = CHUNK_SAMPLES
    /\ \A i \in DOMAIN windows :
           i > 1 => UpTo(windows[i].audio, OVERLAP_SAMPLES)
                        = Last(windows[i - 1].audio, OVERLAP_SAMPLES)

\* C18 witness: three windows were emitted from frames whose boundaries do
\* not fall on the window boundaries.
C18_Witness ==
    /\ Len(windows) >= 3
    /\ \E p \in DOMAIN pipelines : FrameSamples(pipelines[p].device_sample_rate) = 1599

\* the call_started messages handed to the UI transport, in order
CallsStarted == SelectSeq(ui_sent, LAMBDA m : m.type = "call_started")

\* C19: start_call, from any state, leaves call_transcript, emotion_timeline
\* and actions_taken empty and risk_score 0, makes the session ACTIVE, and
\* sends one call_started message with a call_id no earlier call had and the
\* start time.
C19_StartCallResets ==
    [][(ctl = "recv" /\ ctl' = "recv" /\ n_control' = n_control + 1) =>
          /\ call_transcript' = <<>>
          /\ emotion_timeline' = <<>>
          /\ actions_taken' = <<>>
          /\ risk_score' = 0
          /\ phase' = "ACTIVE"
          /\ Len(ui_sent') = Len(ui_sent) + 1
          /\ SubSeq(ui_sent', 1, Len(ui_sent)) = ui_sent
          /\ LET m == ui_sent'[Len(ui_sent')]
             IN  /\ m.type = "call_started"
                 /\ m.timestamp = now
                 /\ \A k \in DOMAIN CallsStarted : CallsStarted[k].call_id # m.call_id
      ]_vars

\* C19 witness: a call with Perceptions and a dispatched Action was ended,
\* and start_call then reset the session.
C19_Witness ==
    /\ phase = "ACTIVE"
    /\ call_transcript = <<>>
    /\ actions_taken = <<>>
    /\ AgentActions # <<>>
    /\ \E k \in DOMAIN ui_sent : ui_sent[k].type = "call_summary"
    /\ ui_sent[Len(ui_sent)].type = "call_started"

\* the calls of this name among the side-effect calls begun
CallsNamed(effects, name) ==
    Cardinality({j \in DOMAIN effects : effects[j].call = name})

\* C20: end_call launches exactly one store_call and exactly one CRM log
\* when the call has more than 3 transcript entries, and neither when it has
\* 3 or fewer.
C20_PersistsOverThree ==
    [][(ctl = "end_call" /\ ctl' # "end_call") =>
          IF Len(call_transcript) > 3
          THEN /\ CallsNamed(side_effects', "store_call")
                     = CallsNamed(side_effects, "store_call") + 1
               /\ CallsNamed(side_effects', "log_to_crm")
                     = CallsNamed(side_effects, "log_to_crm") + 1
          ELSE side_effects' = side_effects
      ]_vars

\* C21: a consultation is launched for a Perception only if no reflex rule
\* fired for it, at least the cooldown (8 s) has passed since the last
\* consultation time, and the running risk is above 0.4 or the transcript
\* holds a trigger keyword or the number of Perceptions accepted in the
\* session is a multiple of 10; so after more than 50 accepted Perceptions a
\* Perception with low risk and no keyword launches one only at every 10th.
C21_GateConditions ==
    [][\A s \in Slots :
          (/\ perceives[s].pc = "update_send"
           /\ perceives'[s] # perceives[s]
           /\ Len(tasks') > Len(tasks)) =>
              LET p == perceives[s].perception
              IN  /\ InstantRules(p.emotion, p.transcript, risk_score) = NoneVal
                  /\ now - last_intervention_time >= intervention_cooldown
                  /\ \/ risk_score > Fx(4, 10)
                     \/ HasKeywordTrigger(p.transcript)
                     \/ Len(accepted_risks) % CheckInPeriod = 0
      ]_vars

\* C25: the step whose gate decides to consult sets the last consultation
\* time to the current time before the task is launched, so every gate
\* evaluated afterwards sees it, even before the launched task has run.
C25_TimeSetAtLaunch ==
    [][Len(tasks') > Len(tasks) => last_intervention_time' = now]_vars

\* C26: the perception loop never waits for a consultation. The step that
\* launches one returns from perceive; while consultations are scheduled or
\* pending, whether or not the service ever answers, a further perceive call
\* is accepted and every suspended perceive call can go on to its reflex
\* dispatch and return.
C26_LoopNeverWaits ==
    /\ [][\A s \in Slots :
             (/\ perceives[s].pc = "update_send"
              /\ perceives'[s] # perceives[s]
              /\ Len(tasks') > Len(tasks)) => perceives'[s] = Idle]_vars
    /\ [](\A s \in Slots : perceives[s].pc \in {"idle", "update_send", "action_send"})
    /\ []((\E t \in DOMAIN tasks : tasks[t].pc # "done") =>
             /\ n_perceive < MaxPerceive => ENABLED DispatchPerceive
             /\ \A s \in Slots :
                   /\ perceives[s].pc = "update_send" => ENABLED DecideAndAct(s)
                   /\ perceives[s].pc = "action_send" => ENABLED PerceiveFinish(s))

\* C26 witness: a consultation was launched for "Why" before "I want to
\* Cancel" was accepted (the risk it saw is that of the first Perception
\* alone); the reflex Action of the later Perception was dispatched first and
\* the consultation's Action after it.
C26_Witness ==
    /\ Len(tasks) = 1
    /\ tasks[1].pc = "send"
    /\ tasks[1].risk_seen = UpdateRisk(0, Fx(1, 10))
    /\ Len(call_transcript) = 2
    /\ call_transcript[1].text = T_why
    /\ call_transcript[2].text = T_cancel
    /\ Len(actions_taken) = 2
    /\ "severity" \in DOMAIN actions_taken[1]
    /\ "action_type" \in DOMAIN actions_taken[2]
    /\ \A s \in Slots : perceives[s] = Idle

\* C28: when the parsed response has a kb_query, nothing is dispatched until
\* the lookup has returned; its result, hits or the found = false error
\* result, is attached as kb_data, and the Action is then dispatched, so
\* every agent_action with a kb_query carries kb_data.
C28_KbDataAttached ==
    /\ [](\A k \in DOMAIN AgentActions :
             "kb_query" \in DOMAIN AgentActions[k].data =>
                 "kb_data" \in DOMAIN AgentActions[k].data)
    /\ [][\A t \in DOMAIN tasks :
             /\ (tasks[t].pc = "gemini" /\ tasks'[t].pc = "kb") =>
                    UNCHANGED <<actions_taken, ui_sent, next_id>>
             /\ (tasks[t].pc = "kb" /\ tasks'[t].pc # "kb") =>
                    /\ tasks'[t].pc = "send"
                    /\ Len(actions_taken') = Len(actions_taken) + 1
                    /\ Len(ui_sent') = Len(ui_sent) + 1
                    /\ ui_sent'[Len(ui_sent')].type = "agent_action"
                    /\ ui_sent'[Len(ui_sent')].data.kb_data \in DispatchKbResults
                    /\ ui_sent'[Len(ui_sent')].data = actions_taken'[Len(actions_taken')]
      ]_vars

\* C28 witness: an agent_action was delivered whose kb_data is the result of
\* a failed lookup, found = false with the error.
C28_Witness ==
    \E k \in DOMAIN AgentActions :
        LET d == AgentActions[k].data
        IN  /\ "kb_query" \in DOMAIN d
            /\ "kb_data" \in DOMAIN d
            /\ ~d.kb_data.found
            /\ "error" \in DOMAIN d.kb_data

\* the perceive call of slot s is decided in this step
Decided(s) == perceives[s].pc = "update_send" /\ perceives'[s] # perceives[s]

\* this step dispatched exactly one Action, with these fields
DispatchedOne(field, value) ==
    /\ Len(actions_taken') = Len(actions_taken) + 1
    /\ next_id' = next_id + 1
    /\ field \in DOMAIN actions_taken'[Len(actions_taken')]
    /\ actions_taken'[Len(actions_taken')][field] = value

\* the emotion of a Perception is critical: risk_level above 0.85, or the
\* label angry with a score above 0.85
CriticalEmotion(emotion) ==
    \/ Get(emotion, "risk_level", 0) > Fx(85, 100)
    \/ /\ Get(emotion, "label", "neutral") = "angry"
       /\ Get(emotion, "score", 0) > Fx(85, 100)

\* C29: the reflex rules are tried in the order critical alert, churn alert,
\* price prompt, and a Perception yields at most one reflex Action: a
\* critical Perception yields the critical alert whatever its keywords; one
\* that is not critical and has a churn keyword, with or without a price
\* keyword, yields show_risk_alert with severity high; one with only a price
\* keyword yields the price prompt; any other yields no reflex Action.
C29_ReflexPriority ==
    [][\A s \in Slots :
          Decided(s) =>
              LET p == perceives[s].perception
                  lower == Lower(p.transcript)
                  critical == CriticalEmotion(p.emotion) /\ risk_score > Fx(75, 100)
                  churn == AnyIn(churn_words, lower)
                  price == AnyIn(price_words, lower)
              IN  /\ Len(actions_taken') <= Len(actions_taken) + 1
                  /\ critical => DispatchedOne("severity", "critical")
                  /\ (~critical /\ churn) => DispatchedOne("severity", "high")
                  /\ (~critical /\ ~churn /\ price) =>
                         DispatchedOne("category", "objection_handling")
                  /\ (~critical /\ ~churn /\ ~price) =>
                         UNCHANGED <<actions_taken, next_id>>
      ]_vars

\* C29 witness: the first Perception, with a churn and a price keyword, got
\* the high alert; a later one with the same transcript, now critical, is
\* getting the critical alert.
C29_Witness ==
    /\ Len(actions_taken) >= 2
    /\ call_transcript[1].text = T_both
    /\ actions_taken[1].severity = "high"
    /\ \E s \in Slots :
          /\ perceives[s].pc = "action_send"
          /\ perceives[s].perception.transcript = T_both
          /\ perceives[s].action.severity = "critical"

\* C30: a Perception gets the critical alert exactly when its emotion is
\* critical (risk_level above 0.85, or angry with a score above 0.85) and
\* the running risk, already updated with this Perception, is above 0.75;
\* when either fails the keyword rules decide.
C30_CriticalExactlyWhen ==
    [][\A s \in Slots :
          Decided(s) =>
              LET p == perceives[s].perception
                  new == actions_taken'[Len(actions_taken')]
                  alerted == /\ Len(actions_taken') = Len(actions_taken) + 1
                             /\ "severity" \in DOMAIN new
                             /\ new.severity = "critical"
              IN  /\ alerted <=> (CriticalEmotion(p.emotion) /\ risk_score > Fx(75, 100))
                  /\ accepted_risks[Len(accepted_risks)] =
                         Get(p.emotion, "risk_level", 0)
                  /\ risk_score = Ewma(accepted_risks)
      ]_vars

\* C30 witness: early in a call the Perception "I want to Cancel" with
\* (angry, 0.9, risk 0.9) is critical in emotion but the running risk is
\* 0.27, and it gets the churn alert with severity high.
C30_Witness ==
    /\ Len(call_transcript) = 1
    /\ risk_score <= Fx(75, 100)
    /\ \E s \in Slots :
          /\ perceives[s].pc = "action_send"
          /\ perceives[s].perception = Perception(T_cancel, E_angry)
          /\ perceives[s].action.severity = "high"

\* what the parser returns for each text of ParserTexts
Parses == [text \in ParserTexts |-> ParseGeminiResponse(text)]

\* C23: for every JSON object text J the parser returns the same structure
\* for J bare, J in a code fence, J with a trailing comma before the closing
\* brace and J with prose before or after it, so a consultation answered
\* with any of these does what it does on the structure of J; a text with no
\* parsable JSON gives None, and the consultation then does what it does on
\* None.
C23_ParserRobust ==
    [][\A t \in DOMAIN tasks :
          /\ \A j \in JsonObjects : \A text \in Renderings(j) :
                 StrategicResponse(t, Parses[text]) =>
                     StrategicResponse(t, Parses[j])
          /\ \A text \in NonJsonTexts :
                 StrategicResponse(t, Parses[text]) => StrategicResponse(t, NoneVal)
      ]_vars

\* the answer text gives no Action to dispatch: it does not parse, or its
\* action_type is none
NothingToDo(text) ==
    \/ Parses[text] = NoneVal
    \/ Get(Parses[text], "action_type", "None") = "none"

\* C27: a consultation dispatches at most one Action, and none when the
\* request raised, when the answer cannot be parsed or when its action_type
\* is none: the task then ends with actions_taken and the UI messages as
\* they were.
C27_AtMostOneAction ==
    /\ [][\A t \in DOMAIN tasks :
             /\ \A text \in ParserTexts :
                    (NothingToDo(text) /\ StrategicResponse(t, Parses[text])) =>
                        /\ tasks'[t].pc = "done"
                        /\ UNCHANGED <<actions_taken, ui_sent, next_id>>
             /\ StrategicResponse(t, GeminiRaised) =>
                    /\ tasks'[t].pc = "done"
                    /\ UNCHANGED <<actions_taken, ui_sent, next_id>>
             /\ (tasks[t].pc \in {"send", "done"} /\ tasks'[t] # tasks[t]) =>
                    UNCHANGED <<ui_sent, next_id>>
      ]_vars
    /\ [](Len(actions_taken) <=
              Cardinality({t \in DOMAIN tasks : tasks[t].pc \in {"send", "done"}}))

\* C27 witness: two consultations have ended; one dispatched its Action, the
\* other, whose answer gave nothing to do, dispatched none.
C27_Witness ==
    /\ Len(tasks) = 2
    /\ \A t \in DOMAIN tasks : tasks[t].pc = "done"
    /\ Len(actions_taken) = 1
    /\ Len(AgentActions) = 1

\* a step in which WebSocketManager.send is called: perceive accepts, an
\* Action is dispatched, or the call summary is sent
SendStep ==
    \/ n_accepted' = n_accepted + 1
    \/ next_id' = next_id + 1
    \/ ctl = "end_call" /\ ctl' = "recv"

\* C22: a send that fails never raises into its caller: the failure removes
\* the session's connection, every later send delivers nothing, and
\* perceive, _execute_action and end_call go on to their end as they do over
\* an open connection.
C22_SendFailureContained ==
    /\ [][connection # "open" => ui_sent' = ui_sent]_vars
    /\ [][(connection = "broken" /\ SendStep) => connection' = "removed"]_vars
    /\ [][connection = "removed" => connection' = "removed"]_vars
    /\ [](ctl # "closed" /\ \A s \in Slots : perceives[s].pc # "raised")
    /\ [](connection # "open" =>
             /\ \A s \in Slots :
                   /\ perceives[s].pc = "update_send" => ENABLED DecideAndAct(s)
                   /\ perceives[s].pc = "action_send" => ENABLED PerceiveFinish(s)
             /\ ctl = "end_call" => \A o \in SpecSummaries : ENABLED EndCallFinish(o))
    /\ [][connection # "open" =>
             /\ n_accepted' = n_accepted + 1 =>
                    Len(emotion_timeline') = Len(emotion_timeline) + 1
             /\ next_id' = next_id + 1 =>
                    Len(actions_taken') = Len(actions_taken) + 1
             /\ (ctl = "end_call" /\ ctl' # "end_call") =>
                    /\ ctl' = "recv"
                    /\ phase' = "ENDED"
                    /\ Len(call_transcript) > 3 =>
                           Len(side_effects') = Len(side_effects) + 2
      ]_vars

\* C22 witness: a send failed and the connection was removed; after that a
\* reflex Action was dispatched and end_call ran to its end with more than 3
\* transcript entries, launching its side effects; neither the Action nor
\* the call summary was delivered.
C22_Witness ==
    /\ connection = "removed"
    /\ phase = "ENDED"
    /\ ctl = "recv"
    /\ Len(actions_taken) > Len(AgentActions)
    /\ \A i \in DOMAIN ui_sent : ui_sent[i].type # "call_summary"
    /\ \E j \in DOMAIN side_effects : side_effects[j].call = "store_call"
    /\ \A s \in Slots : perceives[s] = Idle

\* C24: every control message yields its boundary message: call_start
\* exactly one call_started; call_end exactly one call_summary, sent when
\* end_call has computed the summary; manual_query exactly one kb_result,
\* with found = false and the error when the search failed; and no
\* exception reaches the message loop.
C24_BoundaryMessages ==
    /\ [](ctl # "closed")
    /\ [][/\ (n_control' = n_control + 1 /\ ctl' = "recv") =>
                /\ Len(ui_sent') = Len(ui_sent) + 1
                /\ ui_sent'[Len(ui_sent')].type = "call_started"
          /\ (ctl = "end_call" /\ ctl' # "end_call") =>
                /\ Len(ui_sent') = Len(ui_sent) + 1
                /\ ui_sent'[Len(ui_sent')].type = "call_summary"
                /\ "total_interventions" \in DOMAIN ui_sent'[Len(ui_sent')].data
          /\ (ctl = "manual_query" /\ ctl' # "manual_query") =>
                /\ Len(ui_sent') = Len(ui_sent) + 1
                /\ ui_sent'[Len(ui_sent')].type = "kb_result"
                /\ "found" \in DOMAIN ui_sent'[Len(ui_sent')].data
      ]_vars

\* C31: before the first start_call (session IDLE) a perceive call changes
\* neither call_transcript, emotion_timeline nor risk_score, and no Action is
\* dispatched and no consultation launched while the session is IDLE.
C31_NothingWhileIdle ==
    /\ [][(phase = "IDLE" /\ n_perceive' = n_perceive + 1) =>
             UNCHANGED <<call_transcript, emotion_timeline, risk_score>>]_vars
    /\ [][phase = "IDLE" =>
             /\ Len(actions_taken') <= Len(actions_taken)
             /\ Len(tasks') = Len(tasks)]_vars

\* C32: emotion_timeline is bounded like call_transcript: however many
\* Perceptions are accepted within one call, it never holds more entries
\* than the transcript history may hold.
C32_EmotionTimelineBounded ==
    /\ Len(emotion_timeline) <= TranscriptCap
    /\ Len(emotion_timeline) = Len(call_transcript)

\* the consultation t was launched for a Perception accepted before the
\* current call began: every Perception accepted by the time of its launch
\* precedes the last start_call
Stale(t) == tasks[t].accepted <= n_accepted - Len(accepted_risks)

\* C33: after start_call began a new call, a consultation launched during an
\* earlier call appends no Action to actions_taken, so the new call's action
\* log and its total_interventions hold only Actions of that call.
C33_NoStaleActions ==
    [][\A t \in DOMAIN tasks :
          ( /\ phase = "ACTIVE"
            /\ tasks[t].pc \in {"gemini", "kb"}
            /\ tasks[t].created_in = "ACTIVE"
            /\ Stale(t)
            /\ tasks'[t].pc = "send" ) =>
              UNCHANGED actions_taken
      ]_vars

\* the largest of a sequence of risk levels, 0 for none
MaxOf(rs) ==
    IF rs = <<>> THEN 0
    ELSE CHOOSE m \in {rs[i] : i \in DOMAIN rs} : \A i \in DOMAIN rs : rs[i] <= m

\* the position in ui_sent of the last call_started message
LastStart ==
    CHOOSE k \in DOMAIN ui_sent :
        /\ ui_sent[k].type = "call_started"
        /\ \A j \in DOMAIN ui_sent : j > k => ui_sent[j].type # "call_started"

\* the Actions dispatched since the last start_call
DispatchedSinceStart ==
    Cardinality({k \in DOMAIN ui_sent :
                    k > LastStart /\ ui_sent[k].type = "agent_action"})

\* C34: the summary end_call returns has total_interventions equal to the
\* number of Actions dispatched since start_call and peak_risk equal to the
\* largest risk level among the Perceptions accepted since start_call (0 for
\* none), whatever fields of these names the reasoning service's answer has.
C34_SummaryComputed ==
    [][(ctl = "end_call" /\ ctl' = "recv" /\ CallsStarted # <<>>) =>
          LET m == ui_sent'[Len(ui_sent')]
          IN  /\ Len(ui_sent') = Len(ui_sent) + 1
              /\ m.type = "call_summary"
              /\ m.data.total_interventions = DispatchedSinceStart
              /\ m.data.peak_risk = MaxOf(accepted_risks)
      ]_vars

\* C34 witness: a call with Perceptions of different risk levels and a
\* dispatched Action ended, the answer to the summary request carried its
\* own total_interventions and peak_risk, and the summary was returned.
C34_Witness ==
    /\ CallsStarted # <<>>
    /\ ctl = "recv"
    /\ ui_sent[Len(ui_sent)].type = "call_summary"
    /\ Get(ui_sent[Len(ui_sent)].data, "outcome", "None") = "churned"
    /\ DispatchedSinceStart >= 1
    /\ Len(accepted_risks) >= 2
    /\ \E i, j \in DOMAIN accepted_risks : accepted_risks[i] < accepted_risks[j]

\* the get_model calls that have returned
Returned == {c \in DOMAIN parakeet.callers : parakeet.callers[c].pc = "done"}

\* C35: when _load_model succeeds it is the last run of _load_model there
\* ever is, a first run that succeeds is the only one, and every get_model
\* call that returns a model returns that same instance, however the calls
\* overlap.
C35_LoadsOnce ==
    /\ \A k \in DOMAIN parakeet.loads :
           parakeet.loads[k] = "ok" => k = Len(parakeet.loads) /\ parakeet.model = k
    /\ (parakeet.loads # <<>> /\ parakeet.loads[1] = "ok") => Len(parakeet.loads) = 1
    /\ \A c \in Returned :
           parakeet.callers[c].got # 0 => parakeet.callers[c].got = parakeet.model
    /\ \A c, d \in Returned :
           (parakeet.callers[c].got # 0 /\ parakeet.callers[d].got # 0) =>
               parakeet.callers[c].got = parakeet.callers[d].got

\* C35 witness: five get_model calls overlapped, two of them waiting for the
\* lock while the model was loading; the load succeeded and all five
\* returned the model.
C35_Witness ==
    /\ Cardinality(Returned) = MaxGetModel
    /\ parakeet.loads = <<"ok">>
    /\ \A c \in Returned : parakeet.callers[c].got = 1
    /\ Cardinality({c \in Returned : parakeet.callers[c].waited}) >= 2

\* C36: between the state update of a Perception in perceive and the
\* _decide_and_act of that Perception no other Perception is accepted, so
\* the reflex rules read the risk_score its own update produced.
C36_OwnRiskAtDecision ==
    [][\A s \in Slots :
          perceives[s].pc = "update_send" => n_accepted' = n_accepted
      ]_vars

\* stop() of pipeline p has returned: websocket_endpoint stops the pipeline
\* it finds in global_pipeline while it holds the lock, before it puts a new
\* one there
StopReturned(p) == p # global_pipeline \/ global_pipeline_lock # 0

\* C37: once stop() of a pipeline has returned, the pipeline has neither
\* _running nor the capture's is_running set and no open stream, starts no
\* inference for a window and calls perceive for none, however stop() falls
\* among the steps of its start() task and of its on_audio_chunk coroutines.
C37_StopIsPermanent ==
    /\ [](\A p \in DOMAIN pipelines :
             StopReturned(p) =>
                 /\ ~pipelines[p].running
                 /\ ~pipelines[p].is_running
                 /\ pipelines[p].stream # "active")
    /\ [][\A w \in DOMAIN windows :
             StopReturned(windows[w].pipeline) =>
                 /\ windows[w].pc = "queued" => windows'[w].pc # "infer"
                 /\ Inferred(w) => n_perceive' = n_perceive
         ]_vars

\* the position in the stream after the last sample of a run
End(buffer) == buffer.first + buffer.len

\* C38: after every _process_chunk call the buffer holds fewer than 32000
\* samples, the k-th window cut (k from 0) is the samples [27200 k,
\* 27200 k + 32000) of the stream, and the buffer goes on from the start of
\* the next window to the last sample received, whatever the length of the
\* frames.
C38_NoSampleLost ==
    /\ [](CHUNK_SAMPLES = 32000 /\ CHUNK_SAMPLES - OVERLAP_SAMPLES = 27200)
    /\ [](\A p \in DOMAIN pipelines : pipelines[p].buffer.len < CHUNK_SAMPLES)
    /\ [](\A k \in DOMAIN windows :
             windows[k].audio = Samples(27200 * (k - 1), 32000))
    /\ [](\A p \in DOMAIN pipelines :
             pipelines[p].buffer.first = 27200 * Len(windows))
    /\ [][\A p \in DOMAIN pipelines :
             pipelines'[p].frames = pipelines[p].frames + 1 =>
                 \E n \in FrameLengths :
                     End(pipelines'[p].buffer) = End(pipelines[p].buffer)
                         + Resampled(n, pipelines[p].device_sample_rate)
         ]_vars

\* C38 witness: the first frame completed three windows at once, and later
\* frames completed further windows.
C38_Witness ==
    \E p \in DOMAIN pipelines :
        /\ pipelines[p].frames = 3
        /\ Len(windows) >= 6
        /\ windows[3].audio.first + windows[3].audio.len <= 100000
        /\ pipelines[p].buffer.len > 0

\* C39: when the session id was registered again with a new websocket, the
\* disconnect of an older websocket leaves the registered connection as it
\* is, so while the newest websocket is open the session has a connection
\* and its messages are delivered.
C39_OldDisconnectKeepsNew ==
    /\ [][\A e \in DOMAIN endpoints :
             ( /\ e < Len(endpoints)
               /\ endpoints[e] # "closed"
               /\ endpoints'[e] = "closed" ) => connection' = connection
         ]_vars
    /\ []((endpoints # <<>> /\ endpoints[Len(endpoints)] # "closed") =>
             connection = "open")

\* the last Min(n, Len(seq)) entries of a sequence
LastOf(seq, n) == SubSeq(seq, Len(seq) - Min(n, Len(seq)) + 1, Len(seq))

\* the transcripts and the emotions the windows of pipeline p were emitted
\* to perceive with, in the order of the calls
Emitted(p) == SelectSeq(applied, LAMBDA w : windows[w].pipeline = p)
EmittedTranscripts(p) ==
    [i \in DOMAIN Emitted(p) |-> windows[Emitted(p)[i]].transcript_result.value]
EmittedEmotions(p) ==
    [i \in DOMAIN Emitted(p) |->
        IF windows[Emitted(p)[i]].emotion_result.ok
        THEN windows[Emitted(p)[i]].emotion_result.value
        ELSE [label |-> "neutral", score |-> Fx(5, 10)]]

\* C40: _transcript_context and _emotion_history of a pipeline have the same
\* length, at most 15, and hold the transcripts and the emotions of the most
\* recently emitted windows, oldest first.
C40_ContextAligned ==
    \A p \in DOMAIN pipelines :
        /\ Len(pipelines[p].transcript_context) = Len(pipelines[p].emotion_history)
        /\ Len(pipelines[p].transcript_context) <= 15
        /\ pipelines[p].transcript_context = LastOf(EmittedTranscripts(p), 15)
        /\ pipelines[p].emotion_history = LastOf(EmittedEmotions(p), 15)

\* C40 witness: more than 15 windows were emitted, among them windows with
\* different transcripts and windows whose emotion classification failed,
\* and both lists are full.
C40_Witness ==
    \E p \in DOMAIN pipelines :
        /\ Len(Emitted(p)) > 15
        /\ Len(pipelines[p].transcript_context) = 15
        /\ \E i, j \in 1..15 :
               /\ pipelines[p].transcript_context[i] # pipelines[p].transcript_context[j]
               /\ pipelines[p].emotion_history[i] # pipelines[p].emotion_history[j]

====
